---- MODULE Spec2Model ----
(***************************************************************************)
(* Model of the indexing and search pipeline of TP-Indexation-web:         *)
(*   src/TP3_Moteur_recherche/search_engine.py  (document store, filters,  *)
(*                                               BM25 scoring, search)     *)
(*   src/indexer.py                             (index builders)           *)
(*                                                                         *)
(* Text is modelled as a sequence of one-character strings, a JSON value   *)
(* as a tagged record, a Python exception as an "exc" field of the result. *)
(***************************************************************************)
EXTENDS Integers, Sequences, FiniteSets, TLC

VARIABLES
    pc,           \* position of the running script
    products,     \* the raw records read so far (load_jsonl)
    doc_store,    \* result of build_doc_store: [exc, store, order]
    reviews_in,   \* argument of compute_reviews
    reviews_out,  \* result of compute_reviews
    f_tokens,     \* filter_any / filter_all: the token list
    f_indexes,    \* filter_any / filter_all: the list of indexes
    any_out,      \* result of filter_any
    all_out,      \* result of filter_all
    p_index,      \* get_postings: the index
    p_token,      \* get_postings: the token
    postings_out, \* result of get_postings
    docs,         \* indexer: the raw records of products.jsonl
    title_index,  \* indexer: the title index file written by main()
    bm_in,        \* bm25: [tf, df, dl, avgdl, N]
    bm_out,       \* result of bm25, of score_bm25
    s_in,         \* search: [query, store, idx, top_k]
    result,       \* result of search
    t_text,       \* tokenize: the text
    t_out,        \* results of the two tokenizers, on the text and on their output
    b_docs,       \* index builders: the raw records of products.jsonl
    b_out,        \* index builders: the documents and the indexes built from them
    loaded,       \* session: the store, index files, synonyms and stopwords in memory
    session,      \* session: the data as loaded, and the searches answered so far
    crawl,        \* crawl: frontier, seen, visited, order, written and the arguments
    crawl_log     \* crawl: the urls pushed, fetched and written, and the last pop

storeVars == <<products, doc_store>>
reviewVars == <<reviews_in, reviews_out>>
filterVars == <<f_tokens, f_indexes, any_out, all_out>>
postingVars == <<p_index, p_token, postings_out>>
indexerVars == <<docs, title_index>>
bm25Vars == <<bm_in, bm_out>>
searchVars == <<s_in, result>>
tokVars == <<t_text, t_out>>
buildVars == <<b_docs, b_out>>
sessVars == <<loaded, session>>
crawlVars == <<crawl, crawl_log>>
otherVars == <<tokVars, buildVars, sessVars, crawlVars>>

vars == <<pc, storeVars, reviewVars, filterVars, postingVars, indexerVars, bm25Vars,
          searchVars, otherVars>>

-----------------------------------------------------------------------------
(* Bounds of the model *)

MaxProducts == 2   \* records read by the document store run
MaxReviews == 3    \* entries of a product_reviews list
MaxTokens == 2     \* tokens given to the filters
MaxIndexes == 2    \* indexes given to the filters
MaxDocs == 2       \* records read by the indexer
MaxStat == 2       \* tf, df, dl, sum of lengths and N given to bm25
MaxPostings == 2   \* postings in the index files of the search run
MaxTopK == 2       \* top_k of the search run
MaxText == 4       \* characters of a text given to the tokenizers
MaxSearches == 2   \* searches answered in a session
MaxPages == 2      \* max_pages of the crawl
MaxLinks == 2      \* links of a page

-----------------------------------------------------------------------------
(* Generic helpers *)

SeqOfLen(S, n) == [1..n -> S]

SeqUpTo(S, n) == UNION {SeqOfLen(S, k) : k \in 0..n}

Range(s) == {s[i] : i \in 1..Len(s)}

RECURSIVE SumSeq(_)
SumSeq(s) == IF s = <<>> THEN 0 ELSE s[1] + SumSeq(Tail(s))

-----------------------------------------------------------------------------
(* JSON values, as json.loads returns them *)

Absent == [t |-> "absent"]                    \* the key is not in the object
Null == [t |-> "null"]                        \* None
Str(s) == [t |-> "str", s |-> s]              \* s: sequence of characters
Num(n) == [t |-> "num", n |-> n]
List(e) == [t |-> "list", e |-> e]            \* e: sequence of JSON values
Obj(e) == [t |-> "obj", e |-> e]              \* e: sequence of [k, v] members

Member(k, v) == [k |-> k, v |-> v]

\* Python truth value of a JSON value (what `x or default` and `if not x` test)
Truthy(v) ==
    CASE v.t = "absent" -> FALSE
      [] v.t = "null" -> FALSE
      [] v.t = "str" -> v.s # <<>>
      [] v.t = "num" -> v.n # 0
      [] v.t = "list" -> v.e # <<>>
      [] v.t = "obj" -> v.e # <<>>

\* isinstance(x, (int, float))
IsNumber(v) == v.t = "num"

\* len(x) of a sized JSON value
PyLen(v) ==
    CASE v.t = "str" -> Len(v.s)
      [] v.t = "list" -> Len(v.e)
      [] v.t = "obj" -> Cardinality({v.e[i].k : i \in 1..Len(v.e)})

\* dict.get(key, default): the last member with that key wins (json.loads)
RECURSIVE DictGet(_, _, _)
DictGet(members, key, default) ==
    IF members = <<>> THEN default
    ELSE LET last == members[Len(members)]
         IN IF last.k = key THEN last.v
            ELSE DictGet(SubSeq(members, 1, Len(members) - 1), key, default)

-----------------------------------------------------------------------------
(* Text *)

UpperLetters ==
    <<"A", "B", "C", "D", "E", "F", "G", "H", "I", "J", "K", "L", "M", "N", "O", "P",
      "Q", "R", "S", "T", "U", "V", "W", "X", "Y", "Z">>

LowerLetters ==
    <<"a", "b", "c", "d", "e", "f", "g", "h", "i", "j", "k", "l", "m", "n", "o", "p",
      "q", "r", "s", "t", "u", "v", "w", "x", "y", "z">>

LowerChar(c) ==
    IF \E i \in 1..26 : UpperLetters[i] = c
    THEN LowerLetters[CHOOSE i \in 1..26 : UpperLetters[i] = c]
    ELSE c

\* str.lower()
Lower(s) == [i \in 1..Len(s) |-> LowerChar(s[i])]

Digits == <<"0", "1", "2", "3", "4", "5", "6", "7", "8", "9">>

\* str(x) of a JSON scalar (a string, a one-digit number, None)
PyStr(v) ==
    CASE v.t = "str" -> v.s
      [] v.t = "num" -> <<Digits[v.n + 1]>>
      [] OTHER -> <<"N", "o", "n", "e">>

-----------------------------------------------------------------------------
(* URL canonicalization, search_engine.py: canonicalize_url *)

\* index of the first element of s that is in D, Len(s)+1 if none
RECURSIVE FirstIn(_, _, _)
FirstIn(s, D, i) ==
    IF i > Len(s) THEN i
    ELSE IF s[i] \in D THEN i ELSE FirstIn(s, D, i + 1)

\* urlunsplit((scheme, netloc, path, "", "")): the URL up to its first
\* "?" or "#", whichever comes first
canonicalize_url(url) == SubSeq(url, 1, FirstIn(url, {"?", "#"}, 1) - 1)

-----------------------------------------------------------------------------
(* Document store, search_engine.py: extract_origin, extract_brand,        *)
(* compute_reviews, build_doc_store                                        *)

\* {str(k).lower(): v for k, v in feats.items()}
NormFeatures(members) ==
    [i \in 1..Len(members) |-> Member(Lower(members[i].k), members[i].v)]

\* doc.get("product_features") or {}
FeaturesOrEmpty(doc) ==
    IF Truthy(doc.product_features) THEN doc.product_features ELSE Obj(<<>>)

KeyMadeIn == <<"m", "a", "d", "e", " ", "i", "n">>
KeyMade_In == <<"m", "a", "d", "e", "_", "i", "n">>
KeyOrigin == <<"o", "r", "i", "g", "i", "n">>
KeyBrand == <<"b", "r", "a", "n", "d">>

\* a or b
PyOr(a, b) == IF Truthy(a) THEN a ELSE b

extract_origin(doc) ==
    LET feats == FeaturesOrEmpty(doc)
    IN IF feats.t # "obj"
       THEN [exc |-> "AttributeError", val |-> <<>>]
       ELSE LET norm == NormFeatures(feats.e)
                v == PyOr(DictGet(norm, KeyMadeIn, Null),
                          PyOr(DictGet(norm, KeyMade_In, Null),
                               PyOr(DictGet(norm, KeyOrigin, Null), Str(<<>>))))
            IN [exc |-> "none", val |-> PyStr(v)]

extract_brand(doc) ==
    LET feats == FeaturesOrEmpty(doc)
    IN IF feats.t # "obj"
       THEN [exc |-> "AttributeError", val |-> <<>>]
       ELSE LET norm == NormFeatures(feats.e)
                v == PyOr(DictGet(norm, KeyBrand, Null), Str(<<>>))
            IN [exc |-> "none", val |-> PyStr(v)]

KeyRating == <<"r", "a", "t", "i", "n", "g">>

\* the elements `for r in reviews` yields: the entries of a list, the keys of
\* an object, the characters of a string
IterItems(v) ==
    CASE v.t = "list" -> v.e
      [] v.t = "obj" -> [i \in 1..Len(v.e) |-> Str(v.e[i].k)]
      [] v.t = "str" -> [i \in 1..Len(v.s) |-> Str(<<v.s[i]>>)]

\* [r.get("rating", 0) for r in reviews if isinstance(r, dict)], then
\* [x for x in ratings if isinstance(x, (int, float))], as the numbers kept
RECURSIVE RatingsOf(_)
RatingsOf(items) ==
    IF items = <<>> THEN <<>>
    ELSE LET r == items[1]
             rest == RatingsOf(Tail(items))
         IN IF r.t # "obj" THEN rest
            ELSE LET x == DictGet(r.e, KeyRating, Num(0))
                 IN IF IsNumber(x) THEN <<x.n>> \o rest ELSE rest

\* avg_rating is kept as the exact fraction num/den (den >= 1)
Frac(n, d) == [num |-> n, den |-> d]

compute_reviews(doc) ==
    LET reviews == IF Truthy(doc.product_reviews) THEN doc.product_reviews
                   ELSE List(<<>>)
    IN IF ~Truthy(reviews)
       THEN [exc |-> "none", avg_rating |-> Frac(0, 1), review_count |-> 0]
       ELSE IF reviews.t = "num"
       THEN [exc |-> "TypeError", avg_rating |-> Frac(0, 1), review_count |-> 0]
       ELSE LET ratings == RatingsOf(IterItems(reviews))
            IN IF ratings # <<>>
               THEN [exc |-> "none",
                     avg_rating |-> Frac(SumSeq(ratings), Len(ratings)),
                     review_count |-> PyLen(reviews)]
               ELSE [exc |-> "none", avg_rating |-> Frac(0, 1),
                     review_count |-> PyLen(reviews)]

\* d.get(key, "") of a text field; None stays None and reads as "" later
TextField(v) == IF v.t = "str" THEN v.s ELSE <<>>

DocRecord(url, d, rv, origin, brand) ==
    [doc_id |-> url, url |-> url,
     title |-> TextField(d.title), description |-> TextField(d.description),
     origin |-> origin, brand |-> brand,
     avg_rating |-> rv.avg_rating, review_count |-> rv.review_count]

EmptyStore == [exc |-> "none", order |-> <<>>, store |-> <<>>]

\* store[url] = rec on a dict that keeps insertion order
StorePut(st, url, rec) ==
    [exc |-> "none",
     order |-> IF url \in Range(st.order) THEN st.order ELSE Append(st.order, url),
     store |-> [u \in Range(st.order) \cup {url} |->
                    IF u = url THEN rec ELSE st.store[u]]]

\* first pass of build_doc_store: one record per input with a url
RECURSIVE FirstPass(_, _)
FirstPass(ds, st) ==
    IF ds = <<>> \/ st.exc # "none" THEN st
    ELSE LET d == ds[1]
             url == TextField(d.url)
         IN IF url = <<>> THEN FirstPass(Tail(ds), st)
            ELSE LET rv == compute_reviews(d)
                     o == extract_origin(d)
                     b == extract_brand(d)
                 IN IF rv.exc # "none" THEN [st EXCEPT !.exc = rv.exc]
                    ELSE IF o.exc # "none" THEN [st EXCEPT !.exc = o.exc]
                    ELSE IF b.exc # "none" THEN [st EXCEPT !.exc = b.exc]
                    ELSE FirstPass(Tail(ds),
                                   StorePut(st, url, DocRecord(url, d, rv, o.val, b.val)))

\* Inherit with the parent's value copied over the variant's own value
Inherit_Overwrite(store, url) ==
    LET canon == canonicalize_url(url)
        rec == store[url]
    IN IF canon = url THEN store
       ELSE IF canon \notin DOMAIN store THEN store
       ELSE LET parent == store[canon]
                o == IF parent.origin # <<>> THEN parent.origin ELSE rec.origin
                b == IF parent.brand # <<>> THEN parent.brand ELSE rec.brand
            IN [store EXCEPT ![url] = [rec EXCEPT !.origin = o, !.brand = b]]

\* what one iteration of the second pass does to the record at url
Inherit(store, url) ==
    LET canon == canonicalize_url(url)
        rec == store[url]
    IN IF canon = url THEN store
       ELSE IF canon \notin DOMAIN store THEN store
       ELSE LET parent == store[canon]
                o == IF rec.origin = <<>> /\ parent.origin # <<>>
                     THEN parent.origin ELSE rec.origin
                b == IF rec.brand = <<>> /\ parent.brand # <<>>
                     THEN parent.brand ELSE rec.brand
            IN [store EXCEPT ![url] = [rec EXCEPT !.origin = o, !.brand = b]]

\* second pass of build_doc_store, over list(store.items()) in insertion order
RECURSIVE SecondPass(_, _)
SecondPass(order, store) ==
    IF order = <<>> THEN store
    ELSE SecondPass(Tail(order), Inherit(store, order[1]))

build_doc_store(ds) ==
    LET st == FirstPass(ds, EmptyStore)
    IN IF st.exc # "none" THEN st
       ELSE [st EXCEPT !.store = SecondPass(st.order, st.store)]

-----------------------------------------------------------------------------
(* Query-side tokenization, search_engine.py: normalize_text, tokenize,    *)
(* remove_stopwords, get_default_stopwords, expand_tokens_with_synonyms    *)

\* the characters [a-z0-9] of _TOKEN_RE
TokenChars ==
    {"a", "b", "c", "d", "e", "f", "g", "h", "i", "j", "k", "l", "m", "n", "o",
     "p", "q", "r", "s", "t", "u", "v", "w", "x", "y", "z"} \cup Range(Digits)

normalize_text(text) == Lower(text)

\* _TOKEN_RE.findall(s): the maximal runs of token characters, left to right;
\* cur is the run being read
RECURSIVE FindAll(_, _)
FindAll(s, cur) ==
    IF s = <<>> THEN (IF cur = <<>> THEN <<>> ELSE <<cur>>)
    ELSE IF s[1] \in TokenChars THEN FindAll(Tail(s), Append(cur, s[1]))
    ELSE (IF cur = <<>> THEN <<>> ELSE <<cur>>) \o FindAll(Tail(s), <<>>)

tokenize(text) == FindAll(normalize_text(text), <<>>)

\* [t for t in tokens if t not in stopwords]
remove_stopwords(tokens, stopwords) == SelectSeq(tokens, LAMBDA t : t \notin stopwords)

get_default_stopwords ==
    { <<"t", "h", "e">>, <<"a">>, <<"a", "n">>, <<"a", "n", "d">>, <<"o", "r">>,
      <<"o", "f">>, <<"t", "o">>, <<"i", "n">>, <<"o", "n">>, <<"f", "o", "r">>,
      <<"w", "i", "t", "h">>, <<"i", "s">>, <<"a", "r", "e">>, <<"w", "a", "s">>,
      <<"w", "e", "r", "e">>, <<"b", "e">>, <<"t", "h", "i", "s">>,
      <<"t", "h", "a", "t">>, <<"i", "t">>, <<"a", "s">>, <<"b", "y">> }

-----------------------------------------------------------------------------
(* Index helpers, search_engine.py: get_postings, posting_tf *)

KeyDocId == <<"d", "o", "c", "_", "i", "d">>
KeyTf == <<"t", "f">>
KeyPos == <<"p", "o", "s">>

HasKey(members, key) == \E i \in 1..Len(members) : members[i].k = key

\* {str(p["doc_id"]): p for p in postings if isinstance(p, dict) and "doc_id" in p}
RECURSIVE ByDocId(_)
ByDocId(entries) ==
    IF entries = <<>> THEN <<>>
    ELSE LET q == entries[1]
         IN IF q.t = "obj" /\ HasKey(q.e, KeyDocId)
            THEN <<Member(PyStr(DictGet(q.e, KeyDocId, Null)), q)>> \o ByDocId(Tail(entries))
            ELSE ByDocId(Tail(entries))

\* the postings of a token as the members of a dict: doc id -> posting
get_postings(index, token) ==
    LET postings == DictGet(index.e, token, Null)
    IN IF postings.t = "obj" THEN postings.e
       ELSE IF postings.t = "list" THEN ByDocId(postings.e)
       ELSE <<>>

\* dict.keys()
Keys(members) == {members[i].k : i \in 1..Len(members)}

posting_tf(posting) ==
    CASE posting.t = "null" -> 0
      [] posting.t = "num" -> posting.n
      [] posting.t = "list" -> Len(posting.e)
      [] posting.t = "obj" ->
            LET tf == DictGet(posting.e, KeyTf, Absent)
                pos == DictGet(posting.e, KeyPos, Absent)
            IN IF tf.t = "num" THEN tf.n
               ELSE IF pos.t = "list" THEN Len(pos.e)
               ELSE 0
      [] OTHER -> 0

-----------------------------------------------------------------------------
(* Filtering, search_engine.py: filter_any, filter_all *)

\* {doc_id for idx in indexes for doc_id in get_postings(idx, t).keys()}
DocsOfToken(t, indexes) ==
    UNION {Keys(get_postings(indexes[i], t)) : i \in 1..Len(indexes)}

\* filter_any reading the first index only
filter_any_first_index(tokens, indexes) ==
    IF indexes = <<>> THEN {}
    ELSE UNION {Keys(get_postings(indexes[1], tokens[j])) : j \in 1..Len(tokens)}

filter_any(tokens, indexes) ==
    UNION {DocsOfToken(tokens[j], indexes) : j \in 1..Len(tokens)}

\* list.sort(key=len): stable insertion of x into a list sorted by size
RECURSIVE InsertByLen(_, _)
InsertByLen(sorted, x) ==
    IF sorted = <<>> THEN <<x>>
    ELSE IF Cardinality(x) < Cardinality(sorted[1]) THEN <<x>> \o sorted
    ELSE <<sorted[1]>> \o InsertByLen(Tail(sorted), x)

RECURSIVE SortByLen(_)
SortByLen(sets) ==
    IF sets = <<>> THEN <<>>
    ELSE InsertByLen(SortByLen(SubSeq(sets, 1, Len(sets) - 1)), sets[Len(sets)])

\* for s in sets[1:]: res &= s; if not res: break
RECURSIVE IntersectAll(_, _)
IntersectAll(res, rest) ==
    IF rest = <<>> THEN res
    ELSE LET r == res \cap rest[1]
         IN IF r = {} THEN r ELSE IntersectAll(r, Tail(rest))

\* the members of every postings dict of an index file
AllDocsOf(index) == UNION {Keys(get_postings(index, index.e[i].k)) : i \in 1..Len(index.e)}

\* filter_all taking no token to be matched by every indexed document
filter_all_vacuous(tokens, indexes) ==
    IF tokens = <<>> THEN UNION {AllDocsOf(indexes[i]) : i \in 1..Len(indexes)}
    ELSE LET sets == SortByLen([j \in 1..Len(tokens) |-> DocsOfToken(tokens[j], indexes)])
         IN IntersectAll(sets[1], Tail(sets))

filter_all(tokens, indexes) ==
    IF tokens = <<>> THEN {}
    ELSE LET sets == SortByLen([j \in 1..Len(tokens) |-> DocsOfToken(tokens[j], indexes)])
         IN IntersectAll(sets[1], Tail(sets))

-----------------------------------------------------------------------------
(* Index builder, indexer.py: normalize_token, tokenize, deduplicate_by_url, *)
(* build_inverted_index_urls                                                *)

\* the printable ASCII characters in code point order (the double quote, the
\* backslash and the backquote left out)
Ascii ==
    <<" ", "!", "#", "$", "%", "&", "'", "(", ")", "*", "+", ",", "-", ".", "/",
      "0", "1", "2", "3", "4", "5", "6", "7", "8", "9", ":", ";", "<", "=", ">", "?",
      "@", "A", "B", "C", "D", "E", "F", "G", "H", "I", "J", "K", "L", "M", "N", "O",
      "P", "Q", "R", "S", "T", "U", "V", "W", "X", "Y", "Z", "[", "]", "^", "_",
      "a", "b", "c", "d", "e", "f", "g", "h", "i", "j", "k", "l", "m", "n", "o",
      "p", "q", "r", "s", "t", "u", "v", "w", "x", "y", "z", "{", "|", "}", "~">>

Code(c) == CHOOSE i \in 1..Len(Ascii) : Ascii[i] = c

\* a < b for Python strings
RECURSIVE StrLess(_, _)
StrLess(a, b) ==
    IF b = <<>> THEN FALSE
    ELSE IF a = <<>> THEN TRUE
    ELSE IF a[1] = b[1] THEN StrLess(Tail(a), Tail(b))
    ELSE Code(a[1]) < Code(b[1])

\* sorted(list(urls)) of a set of strings
RECURSIVE SortedStrings(_)
SortedStrings(S) ==
    IF S = {} THEN <<>>
    ELSE LET m == CHOOSE x \in S : \A y \in S \ {x} : StrLess(x, y)
         IN <<m>> \o SortedStrings(S \ {m})

\* string.punctuation (the double quote, the backslash and the backquote left out)
Punctuation ==
    {"!", "#", "$", "%", "&", "'", "(", ")", "*", "+", ",", "-", ".", "/", ":",
     ";", "<", "=", ">", "?", "@", "[", "]", "^", "_", "{", "|", "}", "~"}

\* the whitespace of the texts of the model
Whitespace == {" "}

STOPWORDS ==
    { <<"l", "e">>, <<"l", "a">>, <<"l", "e", "s">>, <<"u", "n">>, <<"u", "n", "e">>,
      <<"d", "e", "s">>, <<"d", "e">>, <<"d", "u">>, <<"d">>, <<"e", "t">>,
      <<"o", "u">>, <<"a">>, <<"t", "h", "e">>, <<"a", "n">>, <<"a", "n", "d">>,
      <<"o", "r">>, <<"t", "o">>, <<"o", "f">>, <<"i", "n">>, <<"f", "o", "r">>,
      <<"w", "i", "t", "h">>, <<"o", "n">>, <<"a", "t">> }

\* raw.lower().translate(PUNCT_TABLE), then the apostrophes removed
normalize_token(raw) == SelectSeq(Lower(raw), LAMBDA c : c \notin Punctuation)

\* text.split(): the maximal runs of non-whitespace characters
RECURSIVE Split(_, _)
Split(s, cur) ==
    IF s = <<>> THEN (IF cur = <<>> THEN <<>> ELSE <<cur>>)
    ELSE IF s[1] \notin Whitespace THEN Split(Tail(s), Append(cur, s[1]))
    ELSE (IF cur = <<>> THEN <<>> ELSE <<cur>>) \o Split(Tail(s), <<>>)

\* tokenize testing the raw word, not the normalized one, against STOPWORDS
RECURSIVE KeepTokens_RawStopwords(_)
KeepTokens_RawStopwords(raws) ==
    IF raws = <<>> THEN <<>>
    ELSE LET tok == normalize_token(raws[1])
         IN IF tok # <<>> /\ raws[1] \notin STOPWORDS
            THEN <<tok>> \o KeepTokens_RawStopwords(Tail(raws))
            ELSE KeepTokens_RawStopwords(Tail(raws))

RECURSIVE KeepTokens(_)
KeepTokens(raws) ==
    IF raws = <<>> THEN <<>>
    ELSE LET tok == normalize_token(raws[1])
         IN IF tok # <<>> /\ tok \notin STOPWORDS
            THEN <<tok>> \o KeepTokens(Tail(raws))
            ELSE KeepTokens(Tail(raws))

\* indexer.py: tokenize
indexer_tokenize(text) == IF text = <<>> THEN <<>> ELSE KeepTokens(Split(text, <<>>))

\* sep.join(strings)
RECURSIVE PyJoin(_, _)
PyJoin(sep, strings) ==
    IF strings = <<>> THEN <<>>
    ELSE IF Len(strings) = 1 THEN strings[1]
    ELSE strings[1] \o sep \o PyJoin(sep, Tail(strings))

\* the records main() keeps: those with a url, fields defaulted
RECURSIVE NormalizeDocs(_)
NormalizeDocs(raw) ==
    IF raw = <<>> THEN <<>>
    ELSE LET r == raw[1]
         IN IF ~Truthy(r.url) THEN NormalizeDocs(Tail(raw))
            ELSE <<[url |-> r.url.s, title |-> r.title]>> \o NormalizeDocs(Tail(raw))

RECURSIVE DedupFrom(_, _)
DedupFrom(ds, seen) ==
    IF ds = <<>> THEN <<>>
    ELSE IF ds[1].url \in seen THEN DedupFrom(Tail(ds), seen)
    ELSE <<ds[1]>> \o DedupFrom(Tail(ds), seen \cup {ds[1].url})

deduplicate_by_url(ds) == DedupFrom(ds, {})

\* d.get(field_name, "") or ""
FieldText(d, field_name) ==
    LET v == IF field_name = "title" THEN d.title ELSE Absent
    IN IF Truthy(v) THEN v.s ELSE <<>>

\* the tokens of the documents, in order of first occurrence (dict key order)
RECURSIVE TokensInOrder(_, _, _)
TokensInOrder(ds, field_name, acc) ==
    IF ds = <<>> THEN acc
    ELSE LET toks == indexer_tokenize(FieldText(ds[1], field_name))
             fresh == SelectSeq(toks, LAMBDA t : t \notin Range(acc))
             add[i \in 0..Len(fresh)] ==
                 IF i = 0 THEN acc
                 ELSE IF fresh[i] \in Range(add[i - 1]) THEN add[i - 1]
                 ELSE Append(add[i - 1], fresh[i])
         IN TokensInOrder(Tail(ds), field_name, add[Len(fresh)])

\* index[tok]: the urls of the documents whose field holds tok
UrlsOfToken(ds, field_name, tok) ==
    {ds[i].url : i \in {j \in 1..Len(ds) :
                          tok \in Range(indexer_tokenize(FieldText(ds[j], field_name)))}}

\* as written to and read back from the index file: token -> list of urls
build_inverted_index_urls(ds, field_name) ==
    LET toks == TokensInOrder(ds, field_name, <<>>)
    IN Obj([i \in 1..Len(toks) |->
               Member(toks[i],
                      LET urls == SortedStrings(UrlsOfToken(ds, field_name, toks[i]))
                      IN List([j \in 1..Len(urls) |-> Str(urls[j])]))])

-----------------------------------------------------------------------------
(* Index builder, indexer.py: extract_product_id, extract_variant,           *)
(* tokenize_with_positions, build_positional_index_urls,                     *)
(* build_feature_inverted_index_urls                                         *)
(* A URL is "h" (scheme and host) followed by the path, "?" and the query,   *)
(* "#" and the fragment.                                                     *)

\* urlparse(url).path
UrlPath(url) == SubSeq(url, 2, FirstIn(url, {"?", "#"}, 1) - 1)

\* urlparse(url).query
UrlQuery(url) ==
    LET q == FirstIn(url, {"?", "#"}, 1)
    IN IF q > Len(url) \/ url[q] = "#" THEN <<>>
       ELSE SubSeq(url, q + 1, FirstIn(url, {"#"}, q + 1) - 1)

DigitChars == Range(Digits)

ProductPrefix == <<"/", "p", "r", "o", "d", "u", "c", "t", "/">>

\* index of the first element of s from i on that is not in D, Len(s)+1 if none
RECURSIVE FirstNotIn(_, _, _)
FirstNotIn(s, D, i) ==
    IF i > Len(s) THEN i
    ELSE IF s[i] \notin D THEN i ELSE FirstNotIn(s, D, i + 1)

\* re.search(r"^/product/(\d+)/?$", parsed.path): group 1, or None
extract_product_id(url) ==
    IF url = <<>> THEN Null
    ELSE LET path == UrlPath(url)
             n == Len(ProductPrefix)
             e == FirstNotIn(path, DigitChars, n + 1)
         IN IF /\ Len(path) > n
               /\ SubSeq(path, 1, n) = ProductPrefix
               /\ e > n + 1
               /\ SubSeq(path, e, Len(path)) \in {<<>>, <<"/">>}
            THEN Str(SubSeq(path, n + 1, e - 1))
            ELSE Null

\* s.split(sep) for a one-character separator
RECURSIVE SplitOn(_, _, _)
SplitOn(s, sep, cur) ==
    IF s = <<>> THEN <<cur>>
    ELSE IF s[1] = sep THEN <<cur>> \o SplitOn(Tail(s), sep, <<>>)
    ELSE SplitOn(Tail(s), sep, Append(cur, s[1]))

\* parse_qs(query): the [name, value] pairs in order; keep_blank_values and
\* strict_parsing are False, so a field without "=" or with an empty value is
\* left out (no "%" or "+" in the queries of the model, so nothing to unquote)
RECURSIVE QsPairs(_)
QsPairs(fields) ==
    IF fields = <<>> THEN <<>>
    ELSE LET f == fields[1]
             eq == FirstIn(f, {"="}, 1)
             name == SubSeq(f, 1, eq - 1)
             value == SubSeq(f, eq + 1, Len(f))
         IN IF eq > Len(f) \/ value = <<>> THEN QsPairs(Tail(fields))
            ELSE <<[name |-> name, value |-> value]>> \o QsPairs(Tail(fields))

parse_qs(query) == IF query = <<>> THEN <<>> ELSE QsPairs(SplitOn(query, "&", <<>>))

KeyVariant == <<"v", "a", "r", "i", "a", "n", "t">>

\* qs.get("variant", [None])[0]
extract_variant(url) ==
    IF url = <<>> THEN Null
    ELSE LET vs == SelectSeq(parse_qs(UrlQuery(url)), LAMBDA p : p.name = KeyVariant)
         IN IF vs = <<>> THEN Null ELSE Str(vs[1].value)

\* the dict main() makes of a raw record that has a url
MainDoc(r) ==
    [url |-> r.url.s,
     title |-> r.title,
     product_features |->
         IF Truthy(r.product_features) THEN r.product_features ELSE Obj(<<>>),
     product_id |-> extract_product_id(r.url.s),
     variant |-> extract_variant(r.url.s)]

\* docs of main(), before deduplicate_by_url
RECURSIVE MainDocs(_)
MainDocs(raw) ==
    IF raw = <<>> THEN <<>>
    ELSE IF ~Truthy(raw[1].url) THEN MainDocs(Tail(raw))
    ELSE <<MainDoc(raw[1])>> \o MainDocs(Tail(raw))

\* the loop of tokenize_with_positions: pos counts every word of text.split()
RECURSIVE KeepPositions(_, _)
KeepPositions(raws, pos) ==
    IF raws = <<>> THEN <<>>
    ELSE LET tok == normalize_token(raws[1])
         IN IF tok # <<>> /\ tok \notin STOPWORDS
            THEN <<[tok |-> tok, pos |-> pos]>> \o KeepPositions(Tail(raws), pos + 1)
            ELSE KeepPositions(Tail(raws), pos + 1)

tokenize_with_positions(text) ==
    IF text = <<>> THEN <<>> ELSE KeepPositions(Split(text, <<>>), 0)

\* the elements of s without repetition, in order of first occurrence (the key
\* order of a dict filled in that order)
RECURSIVE FirstOccurrences(_, _)
FirstOccurrences(s, acc) ==
    IF s = <<>> THEN acc
    ELSE IF s[1] \in Range(acc) THEN FirstOccurrences(Tail(s), acc)
    ELSE FirstOccurrences(Tail(s), Append(acc, s[1]))

\* index[tok][url]: the positions of tok appended document after document
RECURSIVE PositionsOf(_, _, _, _)
PositionsOf(ds, field_name, tok, url) ==
    IF ds = <<>> THEN <<>>
    ELSE LET tps == IF ds[1].url = url
                    THEN SelectSeq(tokenize_with_positions(FieldText(ds[1], field_name)),
                                   LAMBDA tp : tp.tok = tok)
                    ELSE <<>>
         IN [i \in 1..Len(tps) |-> Num(tps[i].pos)]
            \o PositionsOf(Tail(ds), field_name, tok, url)

\* the urls of the documents whose field holds tok, in document order
UrlsInOrder(ds, field_name, tok) ==
    LET holds == SelectSeq(ds, LAMBDA d :
                     tok \in Range(indexer_tokenize(FieldText(d, field_name))))
    IN FirstOccurrences([i \in 1..Len(holds) |-> holds[i].url], <<>>)

\* token -> {url -> list of positions}
build_positional_index_urls(ds, field_name) ==
    LET toks == TokensInOrder(ds, field_name, <<>>)
    IN Obj([i \in 1..Len(toks) |->
               Member(toks[i],
                      LET urls == UrlsInOrder(ds, field_name, toks[i])
                      IN Obj([j \in 1..Len(urls) |->
                                 Member(urls[j],
                                        List(PositionsOf(ds, field_name, toks[i],
                                                         urls[j])))]))])

\* the documents the feature index is built from: a product_id, no variant
CanonicalProducts(ds) ==
    SelectSeq(ds, LAMBDA d : Truthy(d.product_id) /\ d.variant = Null)

\* tokenize(str(value)) of the feature of a document, no token if value is None
FeatureTokens(d, feature_key) ==
    LET features == IF Truthy(d.product_features) THEN d.product_features ELSE Obj(<<>>)
        value == DictGet(features.e, feature_key, Null)
    IN IF value = Null THEN <<>> ELSE indexer_tokenize(PyStr(value))

RECURSIVE FeatureTokensOfAll(_, _)
FeatureTokensOfAll(ds, feature_key) ==
    IF ds = <<>> THEN <<>>
    ELSE FeatureTokens(ds[1], feature_key) \o FeatureTokensOfAll(Tail(ds), feature_key)

\* the feature index listing the urls of a token in document order, unsorted
build_feature_inverted_index_urls_unsorted(ds, feature_key) ==
    LET kept == CanonicalProducts(ds)
        toks == FirstOccurrences(FeatureTokensOfAll(kept, feature_key), <<>>)
    IN Obj([i \in 1..Len(toks) |->
               Member(toks[i],
                      LET holds == SelectSeq(kept, LAMBDA d :
                                       toks[i] \in Range(FeatureTokens(d, feature_key)))
                      IN List([j \in 1..Len(holds) |-> Str(holds[j].url)]))])

\* token -> sorted list of the urls of the canonical products whose feature
\* holds the token
build_feature_inverted_index_urls(ds, feature_key) ==
    LET kept == CanonicalProducts(ds)
        toks == FirstOccurrences(FeatureTokensOfAll(kept, feature_key), <<>>)
    IN Obj([i \in 1..Len(toks) |->
               Member(toks[i],
                      LET urls == SortedStrings(
                                      {kept[k].url : k \in {n \in 1..Len(kept) :
                                          toks[i] \in Range(FeatureTokens(kept[n],
                                                                         feature_key))}})
                      IN List([j \in 1..Len(urls) |-> Str(urls[j])]))])

(* Scoring, search_engine.py: build_stats, bm25, score_bm25                *)
(* A float is modelled in fixed point, in units of 1/10000; avgdl is the   *)
(* exact fraction sum/len.                                                 *)

\* 10000 * ln(p / q) for integers p, q > 0: ln 2 = 0.6931, and for
\* 1 <= x < 2 the series 2 * (y + y^3/3 + y^5/5 + y^7/7), y = (x-1)/(x+1)
RECURSIVE Ln(_, _)
Ln(p, q) ==
    IF p < q THEN 0 - Ln(q, p)
    ELSE IF p >= 2 * q THEN 6931 + Ln(p, 2 * q)
    ELSE LET y == ((p - q) * 10000) \div (p + q)
             y2 == (y * y) \div 10000
             y3 == (y * y2) \div 10000
             y5 == (y3 * y2) \div 10000
             y7 == (y5 * y2) \div 10000
         IN 2 * (y + y3 \div 3 + y5 \div 5 + y7 \div 7)

CorpusStats(N, avgdl, dl) == [N |-> N, avgdl |-> avgdl, dl |-> dl]

\* getattr(v, field)
FieldOf(rec, field) ==
    CASE field = "title" -> rec.title
      [] field = "description" -> rec.description
      [] field = "origin" -> rec.origin
      [] field = "brand" -> rec.brand

RECURSIVE SumOver(_, _)
SumOver(f, S) ==
    IF S = {} THEN 0
    ELSE LET x == CHOOSE x \in S : TRUE IN f[x] + SumOver(f, S \ {x})

build_stats(store, field) ==
    LET dl == [k \in DOMAIN store |-> Len(tokenize(FieldOf(store[k], field)))]
        n == Cardinality(DOMAIN store)
    IN CorpusStats(n, IF n > 0 THEN Frac(SumOver(dl, DOMAIN store), n) ELSE Frac(0, 1), dl)

\* the formula of bm25 past its guard, with k1 = 1.2 and b = 0.75:
\*   idf = ln(1 + (N - df + 0.5) / (df + 0.5)) = ln((2N + 2) / (2df + 1))
\*   idf * tf * 2.2 / (tf + 1.2 * (0.25 + 0.75 * dl / avgdl))
\* dl / avgdl raises ZeroDivisionError when avgdl is 0
Bm25Formula(tf, df, dl, avgdl, N) ==
    IF avgdl.num = 0 THEN [exc |-> "ZeroDivisionError", val |-> 0]
    ELSE LET idf == Ln(2 * N + 2, 2 * df + 1)
             num == idf * 22 * tf * avgdl.num
             den == 10 * tf * avgdl.num + 3 * avgdl.num + 9 * dl * avgdl.den
         IN [exc |-> "none", val |-> num \div den]

\* bm25 without its guard
bm25_unguarded(tf, df, dl, avgdl, N) == Bm25Formula(tf, df, dl, avgdl, N)

bm25(tf, df, dl, avgdl, N) ==
    IF tf = 0 \/ df = 0 \/ dl = 0 \/ avgdl.num = 0 \/ N = 0
    THEN [exc |-> "none", val |-> 0]
    ELSE Bm25Formula(tf, df, dl, avgdl, N)

\* stats.dl.get(doc_id, 0)
DlOf(stats, doc_id) == IF doc_id \in DOMAIN stats.dl THEN stats.dl[doc_id] ELSE 0

RECURSIVE score_bm25(_, _, _, _)
score_bm25(doc_id, tokens, index, stats) ==
    IF tokens = <<>> THEN [exc |-> "none", val |-> 0]
    ELSE LET n == Len(tokens)
             total == score_bm25(doc_id, SubSeq(tokens, 1, n - 1), index, stats)
             postings == get_postings(index, tokens[n])
             df == Cardinality(Keys(postings))
             tf == posting_tf(DictGet(postings, doc_id, Null))
             s == bm25(tf, df, DlOf(stats, doc_id), stats.avgdl, stats.N)
         IN IF total.exc # "none" THEN total
            ELSE IF s.exc # "none" THEN s
            ELSE [exc |-> "none", val |-> total.val + s.val]

-----------------------------------------------------------------------------
(* Search, search_engine.py: load_origin_synonyms,                         *)
(* expand_tokens_with_synonyms, search                                     *)

\* {k.lower(): set(v.lower() for v in vals) for k, vals in raw.items()}; the
\* set of synonyms is kept as the sequence its iteration yields
load_origin_synonyms(raw) ==
    [i \in 1..Len(raw) |->
        Member(Lower(raw[i].k), [j \in 1..Len(raw[i].v) |-> Lower(raw[i].v[j])])]

RECURSIVE TokensOfAll(_)
TokensOfAll(syns) ==
    IF syns = <<>> THEN <<>> ELSE tokenize(syns[1]) \o TokensOfAll(Tail(syns))

RECURSIVE SynonymTokens(_, _)
SynonymTokens(tokens, synonyms) ==
    IF tokens = <<>> THEN <<>>
    ELSE (IF HasKey(synonyms, tokens[1])
          THEN TokensOfAll(DictGet(synonyms, tokens[1], <<>>))
          ELSE <<>>) \o SynonymTokens(Tail(tokens), synonyms)

expand_tokens_with_synonyms(tokens, synonyms) == tokens \o SynonymTokens(tokens, synonyms)

\* a in b for Python strings
IsSubstring(a, b) ==
    \E i \in 0..(Len(b) - Len(a)) : SubSeq(b, i + 1, i + Len(a)) = a

FourIndexes(idx) == <<idx.title, idx.description, idx.origin, idx.brand>>

\* the candidates of search reading the title index only
Candidates_TitleOnly(tokens, tokens_ns, idx) ==
    LET all == filter_all(tokens_ns, <<idx.title>>)
    IN IF all # {} THEN all ELSE filter_any(tokens, <<idx.title>>)

\* filter_all(tokens_ns, [...]) or filter_any(tokens, [...])
Candidates(tokens, tokens_ns, idx) ==
    LET all == filter_all(tokens_ns, FourIndexes(idx))
    IN IF all # {} THEN all ELSE filter_any(tokens, FourIndexes(idx))

\* the score of one candidate present in the store
ScoreOf(doc_id, doc, query, tokens, idx, stats) ==
    LET t == score_bm25(doc_id, tokens, idx.title, stats.title)
        d == score_bm25(doc_id, tokens, idx.description, stats.description)
        o == score_bm25(doc_id, tokens, idx.origin, stats.origin)
        b == score_bm25(doc_id, tokens, idx.brand, stats.brand)
        exact == IF IsSubstring(normalize_text(query), normalize_text(doc.title))
                 THEN 12000 ELSE 0
        origin == IF \E i \in 1..Len(tokens) : tokens[i] \in Range(tokenize(doc.origin))
                  THEN 8000 ELSE 0
        rating == (7000 * doc.avg_rating.num) \div (5 * doc.avg_rating.den)
        count == (2 * Ln(1 + doc.review_count, 1)) \div 10
    IN IF t.exc # "none" THEN t
       ELSE IF d.exc # "none" THEN d
       ELSE IF o.exc # "none" THEN o
       ELSE IF b.exc # "none" THEN b
       ELSE [exc |-> "none",
             val |-> (22 * t.val + 10 * d.val + 8 * o.val + 9 * b.val) \div 10
                     + exact + origin + rating + count]

\* the loop over the candidates, in the order the set yields them
RECURSIVE Scored(_, _, _, _, _, _)
Scored(order, store, query, tokens, idx, stats) ==
    IF order = <<>> THEN [exc |-> "none", list |-> <<>>]
    ELSE LET n == Len(order)
             before == Scored(SubSeq(order, 1, n - 1), store, query, tokens, idx, stats)
             doc_id == order[n]
         IN IF before.exc # "none" THEN before
            ELSE IF doc_id \notin DOMAIN store THEN before
            ELSE LET sc == ScoreOf(doc_id, store[doc_id], query, tokens, idx, stats)
                 IN IF sc.exc # "none" THEN [exc |-> sc.exc, list |-> <<>>]
                    ELSE [exc |-> "none",
                          list |-> Append(before.list, [doc_id |-> doc_id, score |-> sc.val])]

\* scored.sort(key=lambda x: x[1], reverse=True): stable, equal scores keep
\* their order
RECURSIVE InsertByScore(_, _)
InsertByScore(sorted, x) ==
    IF sorted = <<>> THEN <<x>>
    ELSE IF x.score > sorted[1].score THEN <<x>> \o sorted
    ELSE <<sorted[1]>> \o InsertByScore(Tail(sorted), x)

\* the sort without reverse=True: ascending scores
RECURSIVE SortByScore_Ascending(_)
SortByScore_Ascending(scored) ==
    IF scored = <<>> THEN <<>>
    ELSE LET rest == SortByScore_Ascending(Tail(scored))
             lower == SelectSeq(rest, LAMBDA x : x.score < scored[1].score)
             others == SelectSeq(rest, LAMBDA x : x.score >= scored[1].score)
         IN lower \o <<scored[1]>> \o others

RECURSIVE SortByScore(_)
SortByScore(scored) ==
    IF scored = <<>> THEN <<>>
    ELSE InsertByScore(SortByScore(SubSeq(scored, 1, Len(scored) - 1)),
                       scored[Len(scored)])

\* dedup[canon] = (doc_id, score) for the first entry of each canonical url
RECURSIVE Dedup(_, _)
Dedup(scored, seen) ==
    IF scored = <<>> THEN <<>>
    ELSE LET canon == canonicalize_url(scored[1].doc_id)
         IN IF canon \in seen THEN Dedup(Tail(scored), seen)
            ELSE <<scored[1]>> \o Dedup(Tail(scored), seen \cup {canon})

\* Dedup keeping the last entry of each canonical url
RECURSIVE DedupSorted_KeepLast(_)
DedupSorted_KeepLast(scored) ==
    IF scored = <<>> THEN <<>>
    ELSE LET n == Len(scored)
             canon == canonicalize_url(scored[1].doc_id)
         IN IF \E i \in 2..n : canonicalize_url(scored[i].doc_id) = canon
            THEN DedupSorted_KeepLast(Tail(scored))
            ELSE <<scored[1]>> \o DedupSorted_KeepLast(Tail(scored))

DedupSorted(scored) == Dedup(scored, {})

\* list(dedup.values())[:top_k]
FirstK(s, k) == SubSeq(s, 1, IF k < Len(s) THEN k ELSE Len(s))

ResultDoc(d, score) ==
    [title |-> d.title, url |-> d.url, description |-> d.description, score |-> score,
     metadata |-> [origin |-> d.origin, brand |-> d.brand,
                   avg_rating |-> d.avg_rating, review_count |-> d.review_count]]

\* the value of an expression, computed once: The({e}) = e
The(S) == CHOOSE x \in S : TRUE

\* the end of search(): truncation to top_k, the result documents and the
\* returned dict; under "locals" the local variables of search
search_results(query, store, top_k, tokens, tokens_ns, candidates, scored, sorted, dedup) ==
    LET kept == FirstK(dedup, top_k)
        results == [i \in 1..Len(kept) |->
                       ResultDoc(store[kept[i].doc_id], kept[i].score)]
    IN [exc |-> scored.exc,
        query |-> query,
        total_documents |-> Cardinality(DOMAIN store),
        documents_filtered |-> Cardinality(candidates),
        results_returned |-> IF scored.exc = "none" THEN Len(results) ELSE 0,
        documents |-> IF scored.exc = "none" THEN results ELSE <<>>,
        locals |-> [tokens |-> tokens, tokens_ns |-> tokens_ns,
                    candidates |-> candidates,
                    scored |-> IF scored.exc = "none" THEN sorted ELSE <<>>,
                    dedup |-> IF scored.exc = "none" THEN dedup ELSE <<>>]]

\* the ranking with the list cut to top_k entries before the deduplication
search_ranking_truncate_first(query, store, top_k, tokens, tokens_ns, candidates, scored) ==
    The({The({search_results(query, store, top_k, tokens, tokens_ns, candidates,
                             scored, sorted, dedup) :
              dedup \in {DedupSorted(FirstK(sorted, top_k))}}) :
         sorted \in {SortByScore(scored.list)}})

\* the ranking part of search(): sort by score, then one entry per
\* canonical url
search_ranking(query, store, top_k, tokens, tokens_ns, candidates, scored) ==
    The({The({search_results(query, store, top_k, tokens, tokens_ns, candidates,
                             scored, sorted, dedup) :
              dedup \in {DedupSorted(sorted)}}) :
         sorted \in {SortByScore(scored.list)}})

\* the scoring part of search(): corpus statistics and the loop over the
\* candidates
search_scoring(query, store, idx, top_k, order, tokens, tokens_ns, candidates) ==
    The({The({search_ranking(query, store, top_k, tokens, tokens_ns, candidates, scored) :
              scored \in {Scored(order, store, query, tokens, idx, stats)}}) :
         stats \in {[title |-> build_stats(store, "title"),
                     description |-> build_stats(store, "description"),
                     origin |-> build_stats(store, "origin"),
                     brand |-> build_stats(store, "brand")]}})

\* search(); order is the sequence in which the candidate set is iterated.
search(query, store, stopwords, synonyms, idx, top_k, order) ==
    The({The({The({search_scoring(query, store, idx, top_k, order,
                                  tokens, tokens_ns, candidates) :
                   candidates \in {Candidates(tokens, tokens_ns, idx)}}) :
              tokens_ns \in {remove_stopwords(tokens, stopwords)}}) :
         tokens \in {expand_tokens_with_synonyms(tokenize(query), synonyms)}})

\* What a call of search leaves of the objects it is given.  search and the
\* functions it calls modify in place only objects made in the call: expanded
\* (a copy of tokens), the list sets and its first set, which res of
\* filter_all aliases and "res &= s" narrows, scored, dedup and results.  To
\* the loaded objects they apply lookups and iterations only.

\* index.get(token) of get_postings: the index after the lookup
IndexAfterGet_setdefault(index, token) ==
    IF HasKey(index.e, token) THEN index
    ELSE Obj(Append(index.e, Member(token, Obj(<<>>))))

IndexAfterGet(index, token) == index

\* the index after get_postings(index, t) for the tokens t, one after another
RECURSIVE IndexAfterLookups(_, _)
IndexAfterLookups(index, tokens) ==
    IF tokens = <<>> THEN index
    ELSE IndexAfterLookups(IndexAfterGet(index, tokens[1]), Tail(tokens))

\* the tokens search looks up in every index file: tokens_ns in filter_all,
\* tokens in filter_any when it is called, tokens in score_bm25 for every
\* candidate of the store
LookedUp(tokens, tokens_ns, candidates, idx, store) ==
    tokens_ns
    \o (IF filter_all(tokens_ns, FourIndexes(idx)) = {} THEN tokens ELSE <<>>)
    \o (IF candidates \cap DOMAIN store # {} THEN tokens ELSE <<>>)

\* the loaded objects after search(query, ...)
search_effect(query, data) ==
    LET tokens == expand_tokens_with_synonyms(tokenize(query), data.synonyms)
        tokens_ns == remove_stopwords(tokens, data.stopwords)
        looked == LookedUp(tokens, tokens_ns, Candidates(tokens, tokens_ns, data.idx),
                           data.idx, data.store)
    IN [store |-> data.store,
        idx |-> [title |-> IndexAfterLookups(data.idx.title, looked),
                 description |-> IndexAfterLookups(data.idx.description, looked),
                 origin |-> IndexAfterLookups(data.idx.origin, looked),
                 brand |-> IndexAfterLookups(data.idx.brand, looked)],
        synonyms |-> data.synonyms,
        stopwords |-> data.stopwords]

\* the sequences a set can be iterated in
Orders(S) == {o \in SeqOfLen(S, Cardinality(S)) : Range(o) = S}

-----------------------------------------------------------------------------
(* Crawler, crawler.py: normalize_url_keep_query, canonicalize_url,        *)
(* is_internal, compute_priority, heapq, crawl                             *)
(* The first character of a URL stands for its scheme and host.            *)

\* urldefrag(url)[0]: the url up to its first "#" (no surrounding whitespace
\* in the urls of the model, so strip() changes nothing)
normalize_url_keep_query(url) == SubSeq(url, 1, FirstIn(url, {"#"}, 1) - 1)

\* parse_qsl(query, keep_blank_values=True): the (name, value) pairs in order;
\* an empty field is left out, a field without "=" has the value ""
RECURSIVE QslPairs(_)
QslPairs(fields) ==
    IF fields = <<>> THEN <<>>
    ELSE LET f == fields[1]
             eq == FirstIn(f, {"="}, 1)
         IN IF f = <<>> THEN QslPairs(Tail(fields))
            ELSE <<[name |-> SubSeq(f, 1, eq - 1), value |-> SubSeq(f, eq + 1, Len(f))]>>
                 \o QslPairs(Tail(fields))

parse_qsl(query) == IF query = <<>> THEN <<>> ELSE QslPairs(SplitOn(query, "&", <<>>))

\* (name, value) < (name', value') for tuples of strings
PairLess(a, b) ==
    \/ StrLess(a.name, b.name)
    \/ a.name = b.name /\ StrLess(a.value, b.value)

\* list.sort() of the pairs: insertion of x into a sorted list
RECURSIVE InsertPair(_, _)
InsertPair(sorted, x) ==
    IF sorted = <<>> THEN <<x>>
    ELSE IF PairLess(x, sorted[1]) THEN <<x>> \o sorted
    ELSE <<sorted[1]>> \o InsertPair(Tail(sorted), x)

RECURSIVE SortPairs(_)
SortPairs(pairs) ==
    IF pairs = <<>> THEN <<>>
    ELSE InsertPair(SortPairs(SubSeq(pairs, 1, Len(pairs) - 1)), pairs[Len(pairs)])

\* urlencode(pairs): name=value joined by "&" (letters and digits only in the
\* queries of the model, which quote_plus leaves as they are)
RECURSIVE urlencode(_)
urlencode(pairs) ==
    IF pairs = <<>> THEN <<>>
    ELSE pairs[1].name \o <<"=">> \o pairs[1].value
         \o (IF Len(pairs) = 1 THEN <<>> ELSE <<"&">> \o urlencode(Tail(pairs)))

\* canonicalize_url of the crawler with the parameters left in their order
crawler_canonicalize_url_unsorted(url) ==
    LET clean == normalize_url_keep_query(url)
        new_query == urlencode(parse_qsl(UrlQuery(clean)))
    IN SubSeq(clean, 1, 1) \o UrlPath(clean)
       \o (IF new_query # <<>> THEN <<"?">> \o new_query ELSE <<>>)

\* canonicalize_url of crawler.py: no fragment, the parameters sorted
crawler_canonicalize_url(url) ==
    LET clean == normalize_url_keep_query(url)
        new_query == urlencode(SortPairs(parse_qsl(UrlQuery(clean))))
    IN SubSeq(clean, 1, 1) \o UrlPath(clean)
       \o (IF new_query # <<>> THEN <<"?">> \o new_query ELSE <<>>)

\* urlparse(url).netloc
get_domain(url) == SubSeq(url, 1, 1)

is_internal(url, base_domain) == get_domain(url) = base_domain

WordProduct == <<"p", "r", "o", "d", "u", "c", "t">>

compute_priority(url) == IF IsSubstring(WordProduct, Lower(url)) THEN 0 ELSE 10

\* extract_links: the hrefs of the page made absolute and without fragment
\* (the hrefs of the model are absolute, so urljoin returns them)
extract_links(hrefs) ==
    SelectSeq([i \in 1..Len(hrefs) |-> normalize_url_keep_query(hrefs[i])],
              LAMBDA u : u # <<>>)

\* (priority, order, url) < (priority', order', url') with the order compared
\* before the priority
EntryLess_OrderFirst(a, b) ==
    \/ a.ord < b.ord
    \/ a.ord = b.ord /\ a.prio < b.prio
    \/ a.ord = b.ord /\ a.prio = b.prio /\ StrLess(a.url, b.url)

\* (priority, order, url) < (priority', order', url') for the tuples of the
\* frontier
EntryLess(a, b) ==
    \/ a.prio < b.prio
    \/ a.prio = b.prio /\ a.ord < b.ord
    \/ a.prio = b.prio /\ a.ord = b.ord /\ StrLess(a.url, b.url)

\* heapq._siftdown(heap, startpos, pos); positions count from 0, the list is
\* indexed from 1
RECURSIVE SiftDown(_, _, _, _)
SiftDown(heap, startpos, pos, newitem) ==
    LET parentpos == (pos - 1) \div 2
    IN IF pos > startpos /\ EntryLess(newitem, heap[parentpos + 1])
       THEN SiftDown([heap EXCEPT ![pos + 1] = heap[parentpos + 1]], startpos, parentpos,
                     newitem)
       ELSE [heap EXCEPT ![pos + 1] = newitem]

\* heapq.heappush(heap, item)
heappush(heap, item) == SiftDown(Append(heap, item), 0, Len(heap), item)

\* heapq._siftup(heap, pos): the smaller child moves up until a leaf is
\* reached, then newitem is sifted down from there
RECURSIVE SiftUp(_, _, _)
SiftUp(heap, pos, newitem) ==
    LET endpos == Len(heap)
        childpos == 2 * pos + 1
        rightpos == childpos + 1
        smaller == IF rightpos < endpos /\ ~EntryLess(heap[childpos + 1], heap[rightpos + 1])
                   THEN rightpos ELSE childpos
    IN IF childpos < endpos
       THEN SiftUp([heap EXCEPT ![pos + 1] = heap[smaller + 1]], smaller, newitem)
       ELSE SiftDown([heap EXCEPT ![pos + 1] = newitem], 0, pos, newitem)

\* heapq.heappop(heap): the item returned and the heap left
heappop(heap) ==
    LET lastelt == heap[Len(heap)]
        rest == SubSeq(heap, 1, Len(heap) - 1)
    IN IF rest # <<>>
       THEN [item |-> rest[1], heap |-> SiftUp([rest EXCEPT ![1] = lastelt], 0, lastelt)]
       ELSE [item |-> lastelt, heap |-> <<>>]

(* Inputs of the document store run *)

Acme == <<"A", "c", "m", "e">>
Fr == <<"f", "r">>
De == <<"d", "e">>

\* URLs, one character per element; "h" stands for the scheme and host
UrlP == <<"h", "/", "p">>
UrlPV == <<"h", "/", "p", "?", "v">>
UrlQ == <<"h", "/", "q">>
UrlQV == <<"h", "/", "q", "?", "v">>

StoreUrls == {Absent, Str(UrlP), Str(UrlPV), Str(UrlQV)}

StoreFeatures ==
    { Null,
      Obj(<<Member(<<"B", "r", "a", "n", "d">>, Str(Acme))>>),
      Obj(<<Member(<<"M", "a", "d", "e", " ", "I", "n">>, Str(Fr)),
            Member(KeyOrigin, Str(De))>>),
      Obj(<<Member(KeyBrand, Num(0)), Member(KeyOrigin, Num(5))>>),
      List(<<Str(Acme)>>),
      Str(Acme),
      Num(5) }

StoreReviews ==
    { Absent,
      List(<<Obj(<<Member(KeyRating, Num(4))>>), Str(<<"x">>)>>),
      Num(5) }

RawDocs ==
    [url : StoreUrls, title : {Absent}, description : {Absent},
     product_features : StoreFeatures, product_reviews : StoreReviews]

-----------------------------------------------------------------------------
(* The variables a run does not use *)

NoReviews == [exc |-> "none", avg_rating |-> Frac(0, 1), review_count |-> 0]
NoScore == [exc |-> "none", val |-> 0]
EmptyIndex == Obj(<<>>)
NoBm25 == [tf |-> 0, df |-> 0, dl |-> 0, avgdl |-> Frac(0, 1), N |-> 0, tokens |-> <<>>]
NoIdx == [title |-> EmptyIndex, description |-> EmptyIndex, origin |-> EmptyIndex,
          brand |-> EmptyIndex]
NoSearch == [query |-> <<>>, store |-> <<>>, synonyms |-> <<>>, idx |-> NoIdx, top_k |-> 0]
NoResult == [exc |-> "none"]

NoCrawl == [frontier |-> <<>>, seen |-> {}, visited |-> {}, order |-> 0, written |-> 0,
            base_domain |-> <<>>, max_pages |-> 0]
NoPop == [popped |-> FALSE]
NoCrawlLog == [pushed |-> <<>>, skipped |-> {}, fetched |-> <<>>, output |-> <<>>, revisits |-> 0,
               last |-> NoPop]
NoLoaded == [store |-> <<>>, idx |-> NoIdx, synonyms |-> <<>>, stopwords |-> {}]
NoSession == [initial |-> NoLoaded, answers |-> <<>>]
NoBuild == [docs |-> <<>>, order |-> <<>>, built |-> <<>>, reordered |-> <<>>]
NoTokens == [search |-> <<>>, search_again |-> <<>>, indexer |-> <<>>, indexer_again |-> <<>>]

StoreIdle == products = <<>> /\ doc_store = EmptyStore
ReviewsIdle == reviews_in = Absent /\ reviews_out = NoReviews
FilterIdle == f_tokens = <<>> /\ f_indexes = <<>> /\ any_out = {} /\ all_out = {}
PostingsIdle == p_index = EmptyIndex /\ p_token = <<>> /\ postings_out = <<>>
IndexerIdle == docs = <<>> /\ title_index = EmptyIndex
Bm25Idle == bm_in = NoBm25 /\ bm_out = NoScore
SearchIdle == s_in = NoSearch /\ result = NoResult
TokIdle == t_text = <<>> /\ t_out = NoTokens
BuildIdle == b_docs = <<>> /\ b_out = NoBuild
SessionIdle == loaded = NoLoaded /\ session = NoSession
CrawlIdle == crawl = NoCrawl /\ crawl_log = NoCrawlLog
OtherIdle == TokIdle /\ BuildIdle /\ SessionIdle /\ CrawlIdle

-----------------------------------------------------------------------------
(* The document store run: main() reads products.jsonl, then builds the store *)

InitStore ==
    /\ pc = "load"
    /\ StoreIdle /\ ReviewsIdle /\ FilterIdle /\ PostingsIdle /\ IndexerIdle
    /\ Bm25Idle /\ SearchIdle /\ OtherIdle

\* load_jsonl: one more line of products.jsonl
LoadRecord ==
    /\ pc = "load"
    /\ Len(products) < MaxProducts
    /\ \E d \in RawDocs : products' = Append(products, d)
    /\ UNCHANGED <<pc, doc_store, reviewVars, filterVars, postingVars, indexerVars,
                   bm25Vars, searchVars, otherVars>>

BuildDocStore ==
    /\ pc = "load"
    /\ doc_store' = build_doc_store(products)
    /\ pc' = "built"
    /\ UNCHANGED <<products, reviewVars, filterVars, postingVars, indexerVars,
                   bm25Vars, searchVars, otherVars>>

NextStore == LoadRecord \/ BuildDocStore

SpecStore == InitStore /\ [][NextStore]_vars

-----------------------------------------------------------------------------
(* The review statistics run: compute_reviews on one product_reviews value *)

ReviewEntries ==
    { Obj(<<Member(KeyRating, Num(4))>>),
      Obj(<<Member(KeyRating, Num(1))>>),
      Obj(<<Member(<<"d", "a", "t", "e">>, Str(<<"1">>))>>),
      Obj(<<Member(KeyRating, Str(<<"5">>))>>),
      Str(<<"x">>) }

ReviewInputs ==
    {Absent, Null, Str(<<"a", "b">>)} \cup {List(e) : e \in SeqUpTo(ReviewEntries, MaxReviews)}

InitReviews ==
    /\ pc = "reviews"
    /\ reviews_in \in ReviewInputs
    /\ reviews_out = NoReviews
    /\ StoreIdle /\ FilterIdle /\ PostingsIdle /\ IndexerIdle /\ Bm25Idle /\ SearchIdle /\ OtherIdle

ComputeReviews ==
    /\ pc = "reviews"
    /\ reviews_out' = compute_reviews([product_reviews |-> reviews_in])
    /\ pc' = "reviews_done"
    /\ UNCHANGED <<reviews_in, storeVars, filterVars, postingVars, indexerVars,
                   bm25Vars, searchVars, otherVars>>

NextReviews == ComputeReviews

SpecReviews == InitReviews /\ [][NextReviews]_vars

-----------------------------------------------------------------------------
(* The postings run: get_postings on one index file and one token *)

TokA == <<"a">>
TokLg == <<"l", "g">>
TokFr == <<"f", "r">>

\* the shapes an index file gives to the postings of a token
PostingsShapes ==
    { Absent,
      Obj(<<Member(UrlP, List(<<Num(0), Num(2)>>))>>),
      Obj(<<Member(UrlP, Num(1)), Member(UrlPV, Obj(<<Member(KeyTf, Num(2))>>))>>),
      Obj(<<Member(UrlQ, Obj(<<Member(KeyPos, List(<<Num(1)>>))>>)),
            Member(UrlP, Str(<<"x">>))>>),
      List(<<Obj(<<Member(KeyDocId, Str(UrlP)), Member(KeyTf, Num(1))>>),
             Obj(<<Member(KeyDocId, Str(UrlPV))>>)>>),
      List(<<Obj(<<Member(KeyDocId, Str(UrlQ)), Member(KeyPos, List(<<Num(0)>>))>>),
             Str(UrlP)>>),
      List(<<Str(UrlP)>>),
      List(<<Str(UrlP), Str(UrlPV)>>),
      List(<<>>),
      Str(<<"x">>),
      Null }

\* an index file: the tokens a and lg with postings of the given shapes
IndexFile(pa, pl) ==
    Obj(SelectSeq(<<Member(TokA, pa), Member(TokLg, pl)>>, LAMBDA m : m.v # Absent))

InitPostings ==
    /\ pc = "postings"
    /\ \E pa \in PostingsShapes, pl \in PostingsShapes : p_index = IndexFile(pa, pl)
    /\ p_token \in {TokA, TokLg, TokFr}
    /\ postings_out = <<>>
    /\ StoreIdle /\ ReviewsIdle /\ FilterIdle /\ IndexerIdle /\ Bm25Idle /\ SearchIdle /\ OtherIdle

GetPostings ==
    /\ pc = "postings"
    /\ postings_out' = get_postings(p_index, p_token)
    /\ pc' = "postings_done"
    /\ UNCHANGED <<p_index, p_token, storeVars, reviewVars, filterVars, indexerVars,
                   bm25Vars, searchVars, otherVars>>

NextPostings == GetPostings

SpecPostings == InitPostings /\ [][NextPostings]_vars

-----------------------------------------------------------------------------
(* The filter run: filter_any and filter_all on one token list and one     *)
(* list of indexes                                                         *)

FilterShapes ==
    { Absent,
      Obj(<<Member(UrlP, List(<<Num(0)>>))>>),
      Obj(<<Member(UrlP, Num(1)), Member(UrlPV, Num(2))>>),
      List(<<Obj(<<Member(KeyDocId, Str(UrlQ)), Member(KeyTf, Num(1))>>),
             Obj(<<Member(KeyDocId, Str(UrlPV))>>)>>),
      List(<<Str(UrlP), Str(UrlQ)>>) }

FilterIndexes == {IndexFile(pa, pl) : pa \in FilterShapes, pl \in FilterShapes}

InitFilter ==
    /\ pc = "filter"
    /\ f_tokens \in SeqUpTo({TokA, TokLg}, MaxTokens)
    /\ f_indexes \in SeqUpTo(FilterIndexes, MaxIndexes)
    /\ any_out = {}
    /\ all_out = {}
    /\ StoreIdle /\ ReviewsIdle /\ PostingsIdle /\ IndexerIdle /\ Bm25Idle /\ SearchIdle /\ OtherIdle

RunFilters ==
    /\ pc = "filter"
    /\ any_out' = filter_any(f_tokens, f_indexes)
    /\ all_out' = filter_all(f_tokens, f_indexes)
    /\ pc' = "filtered"
    /\ UNCHANGED <<f_tokens, f_indexes, storeVars, reviewVars, postingVars, indexerVars,
                   bm25Vars, searchVars, otherVars>>

NextFilter == RunFilters

SpecFilter == InitFilter /\ [][NextFilter]_vars

-----------------------------------------------------------------------------
(* The indexer run: main() of indexer.py builds the title index, then the  *)
(* search side filters on one token of the index file                      *)

IndexTitles ==
    { Null,
      Str(<<>>),
      Str(<<"L", "G">>),
      Str(<<"a", " ", "l", "g", " ", "f", "r">>),
      Str(<<"t", "h", "e", " ", "l", "-", "g", ",">>),
      Str(<<"f", "r", " ", "f", "r">>) }

IndexerDocs ==
    [url : {Absent, Str(UrlP), Str(UrlPV), Str(UrlQ)}, title : IndexTitles]

InitIndexer ==
    /\ pc = "index"
    /\ docs \in SeqUpTo(IndexerDocs, MaxDocs)
    /\ title_index = EmptyIndex
    /\ StoreIdle /\ ReviewsIdle /\ FilterIdle /\ PostingsIdle /\ Bm25Idle /\ SearchIdle /\ OtherIdle

BuildIndexes ==
    /\ pc = "index"
    /\ title_index' =
           build_inverted_index_urls(deduplicate_by_url(NormalizeDocs(docs)), "title")
    /\ pc' = "indexed"
    /\ UNCHANGED <<docs, storeVars, reviewVars, filterVars, postingVars, bm25Vars,
                   searchVars, otherVars>>

FilterOnToken ==
    /\ pc = "indexed"
    /\ \E t \in Keys(title_index.e) :
           /\ f_tokens' = <<t>>
           /\ f_indexes' = <<title_index>>
           /\ all_out' = filter_all(<<t>>, <<title_index>>)
           /\ any_out' = filter_any(<<t>>, <<title_index>>)
    /\ pc' = "filtered"
    /\ UNCHANGED <<storeVars, reviewVars, postingVars, indexerVars, bm25Vars, searchVars, otherVars>>

NextIndexer == BuildIndexes \/ FilterOnToken

SpecIndexer == InitIndexer /\ [][NextIndexer]_vars

-----------------------------------------------------------------------------
(* The scoring run: bm25 on one tuple of numbers, and score_bm25 on the    *)
(* index and the statistics that give the document h/p those numbers       *)

Bm25Inputs ==
    [tf : 0..MaxStat, df : 0..MaxStat, dl : 0..MaxStat, N : 0..MaxStat,
     avgdl : {Frac(sum, n) : sum \in 0..MaxStat, n \in 1..2},
     tokens : {<<>>, <<TokLg>>, <<TokFr>>, <<TokLg, TokFr>>, <<TokFr, TokLg>>}]

\* positions 0 .. tf-1: a posting of term frequency tf
Positions(tf) == List([i \in 1..tf |-> Num(i - 1)])

\* lg: df postings, the one of h/p (if tf > 0) with frequency tf;
\* fr: one posting, of another document
ScoreIndex(in) ==
    LET others == <<UrlPV, UrlQ, UrlQV, <<"h", "/", "r">>>>
        own == IF in.tf > 0 /\ in.df > 0 THEN <<Member(UrlP, Positions(in.tf))>> ELSE <<>>
        rest == [i \in 1..(in.df - Len(own)) |-> Member(others[i], Positions(1))]
    IN Obj(<<Member(TokLg, Obj(own \o rest)),
             Member(TokFr, Obj(<<Member(UrlQ, Positions(1))>>))>>)

ScoreStats(in) == CorpusStats(in.N, in.avgdl, [d \in {UrlP} |-> in.dl])

InitBm25 ==
    /\ pc = "bm25"
    /\ bm_in \in Bm25Inputs
    /\ bm_out = NoScore
    /\ StoreIdle /\ ReviewsIdle /\ FilterIdle /\ PostingsIdle /\ IndexerIdle /\ SearchIdle /\ OtherIdle

Bm25 ==
    /\ pc = "bm25"
    /\ bm_out' = bm25(bm_in.tf, bm_in.df, bm_in.dl, bm_in.avgdl, bm_in.N)
    /\ pc' = "bm25_done"
    /\ UNCHANGED <<bm_in, storeVars, reviewVars, filterVars, postingVars, indexerVars,
                   searchVars, otherVars>>

ScoreBm25 ==
    /\ pc = "bm25"
    /\ bm_out' = score_bm25(UrlP, bm_in.tokens, ScoreIndex(bm_in), ScoreStats(bm_in))
    /\ pc' = "score_done"
    /\ UNCHANGED <<bm_in, storeVars, reviewVars, filterVars, postingVars, indexerVars,
                   searchVars, otherVars>>

NextBm25 == Bm25 \/ ScoreBm25

SpecBm25 == InitBm25 /\ [][NextBm25]_vars

-----------------------------------------------------------------------------
(* The search run: main() of search_engine.py loads the index files, the   *)
(* synonyms and the products, builds the store and searches one query      *)

Lg == <<"L", "G">>

SearchProducts ==
    << [url |-> Str(UrlPV), title |-> Str(Lg), description |-> Null,
        product_features |-> Null, product_reviews |-> Absent],
       [url |-> Str(UrlP), title |-> Str(<<"a", " ", "L", "G">>),
        description |-> Str(TokLg),
        product_features |-> Obj(<<Member(<<"B", "r", "a", "n", "d">>, Str(Lg)),
                                   Member(KeyMadeIn, Str(Fr))>>),
        product_reviews |-> List(<<Obj(<<Member(KeyRating, Num(4))>>)>>)],
       [url |-> Str(UrlQ), title |-> Str(<<"a">>), description |-> Str(<<>>),
        product_features |-> Obj(<<Member(KeyOrigin, Str(Fr))>>),
        product_reviews |-> List(<<Obj(<<Member(KeyRating, Num(1))>>),
                                   Obj(<<Member(KeyRating, Num(4))>>)>>)] >>

\* products.jsonl with and without the variant page
SearchStores ==
    { build_doc_store(SearchProducts).store,
      build_doc_store(Tail(SearchProducts)).store }

SearchDocs == <<UrlP, UrlPV, UrlQ>>

SearchSynonyms ==
    { <<>>,
      load_origin_synonyms(<<Member(<<"F", "r", "a", "n", "c", "e">>, <<<<"F", "R">>>>)>>) }

SearchQueries ==
    { <<>>,
      <<"-">>,
      <<"a">>,
      <<"l", "g">>,
      <<"a", " ", "L", "G">>,
      <<"f", "r", "a", "n", "c", "e">>,
      <<"f", "r", " ", "l", "g">> }

\* the postings an index file of the run can hold: field, token, document, tf
PostingSlots ==
    [f : {"title"}, tok : {TokA, TokLg}, doc : Range(SearchDocs), tf : {1, 2}]
    \cup [f : {"description", "brand"}, tok : {TokLg}, doc : Range(SearchDocs), tf : {1}]
    \cup [f : {"origin"}, tok : {TokFr}, doc : Range(SearchDocs), tf : {1}]

RECURSIVE SetsUpTo(_, _)
SetsUpTo(S, n) ==
    IF n = 0 THEN {{}}
    ELSE LET smaller == SetsUpTo(S, n - 1)
         IN smaller \cup {T \cup {x} : T \in smaller, x \in S}

\* one posting at most for a field, a token and a document
PostingSets ==
    {ps \in SetsUpTo(PostingSlots, MaxPostings) :
        \A x \in ps, y \in ps : (x.f = y.f /\ x.tok = y.tok /\ x.doc = y.doc) => x = y}

\* a title index file that posts every document of the run for one token
FullTitlePostings == {[f |-> "title", tok |-> TokLg, doc |-> d, tf |-> 1] : d \in Range(SearchDocs)}

\* the index file of a field: token -> {document -> positions}
IndexOfField(ps, f) ==
    LET toks == SelectSeq(<<TokA, TokLg, TokFr>>,
                          LAMBDA t : \E x \in ps : x.f = f /\ x.tok = t)
        DocsOf(t) == SelectSeq(SearchDocs,
                               LAMBDA d : \E x \in ps : x.f = f /\ x.tok = t /\ x.doc = d)
        TfOf(t, d) == (CHOOSE x \in ps : x.f = f /\ x.tok = t /\ x.doc = d).tf
    IN Obj([i \in 1..Len(toks) |->
               Member(toks[i],
                      Obj([j \in 1..Len(DocsOf(toks[i])) |->
                              Member(DocsOf(toks[i])[j],
                                     Positions(TfOf(toks[i], DocsOf(toks[i])[j])))]))])

IndexFiles(ps) ==
    [title |-> IndexOfField(ps, "title"), description |-> IndexOfField(ps, "description"),
     origin |-> IndexOfField(ps, "origin"), brand |-> IndexOfField(ps, "brand")]

InitSearch ==
    /\ pc = "search"
    /\ \E q \in SearchQueries, st \in SearchStores, sy \in SearchSynonyms,
          ps \in PostingSets \cup {FullTitlePostings}, k \in 0..MaxTopK :
           s_in = [query |-> q, store |-> st, synonyms |-> sy, idx |-> IndexFiles(ps),
                   top_k |-> k]
    /\ result = NoResult
    /\ StoreIdle /\ ReviewsIdle /\ FilterIdle /\ PostingsIdle /\ IndexerIdle /\ Bm25Idle /\ OtherIdle

\* the candidate set of the query, which the scoring loop iterates
CandidatesOf(in) ==
    LET tokens == expand_tokens_with_synonyms(tokenize(in.query), in.synonyms)
    IN Candidates(tokens, remove_stopwords(tokens, get_default_stopwords), in.idx)

Search ==
    /\ pc = "search"
    /\ \E order \in Orders(CandidatesOf(s_in)) :
           result' = search(s_in.query, s_in.store, get_default_stopwords, s_in.synonyms,
                            s_in.idx, s_in.top_k, order)
    /\ pc' = "searched"
    /\ UNCHANGED <<s_in, storeVars, reviewVars, filterVars, postingVars, indexerVars,
                   bm25Vars, otherVars>>

NextSearch == Search

SpecSearch == InitSearch /\ [][NextSearch]_vars

-----------------------------------------------------------------------------
(* The tokenizer run: the tokenizer of the search engine and the tokenizer *)
(* of the indexer on one text, then on their own output joined by spaces   *)

\* the characters of the texts: letters of both cases, of which "a" and "to"
\* are stop words, a digit, the space and a punctuation mark
TextChars == {"a", "T", "o", "1", " ", "'"}

Texts == SeqUpTo(TextChars, MaxText)

InitTokenize ==
    /\ pc = "tokenize"
    /\ t_text \in Texts
    /\ t_out = NoTokens
    /\ StoreIdle /\ ReviewsIdle /\ FilterIdle /\ PostingsIdle /\ IndexerIdle
    /\ Bm25Idle /\ SearchIdle /\ BuildIdle /\ SessionIdle /\ CrawlIdle

Tokenize ==
    /\ pc = "tokenize"
    /\ t_out' = [search |-> tokenize(t_text),
                 search_again |-> tokenize(PyJoin(<<" ">>, tokenize(t_text))),
                 indexer |-> indexer_tokenize(t_text),
                 indexer_again |->
                     indexer_tokenize(PyJoin(<<" ">>, indexer_tokenize(t_text)))]
    /\ pc' = "tokenized"
    /\ UNCHANGED <<t_text, storeVars, reviewVars, filterVars, postingVars, indexerVars,
                   bm25Vars, searchVars, buildVars, sessVars, crawlVars>>

NextTokenize == Tokenize

SpecTokenize == InitTokenize /\ [][NextTokenize]_vars

-----------------------------------------------------------------------------
(* The index builder run: main() of indexer.py reads the records and       *)
(* builds the title indexes and the feature indexes, from the documents in *)
(* the order read and in another order                                     *)

UrlProduct == <<"h", "/", "p", "r", "o", "d", "u", "c", "t", "/", "1">>
UrlVariant == UrlProduct \o <<"?", "v", "a", "r", "i", "a", "n", "t", "=", "2">>
UrlBlankVariant == UrlProduct \o <<"?", "v", "a", "r", "i", "a", "n", "t", "=">>
UrlProduct2 == <<"h", "/", "p", "r", "o", "d", "u", "c", "t", "/", "0", "2", "/", "?", "p", "=", "1">>
UrlVariant2 == UrlProduct2 \o <<"&", "v", "a", "r", "i", "a", "n", "t", "=", "3">>
UrlListing == <<"h", "/", "p", "r", "o", "d", "u", "c", "t", "s">>

BuilderUrls ==
    {Absent, Str(UrlProduct), Str(UrlVariant), Str(UrlBlankVariant), Str(UrlProduct2),
     Str(UrlVariant2), Str(UrlListing)}

\* title and features of the records
BuilderShapes ==
    { [title |-> Str(<<"l", "g", " ", "a", " ", "L", "G">>),
       product_features |-> Obj(<<Member(KeyBrand, Str(Acme)), Member(KeyMadeIn, Str(Fr))>>)],
      [title |-> Str(<<"F", "r", " ", "-", " ", "l", "g", "!">>),
       product_features |->
           Obj(<<Member(KeyBrand, Str(<<"L", "g", " ", "A", "c", "m", "e">>)),
                 Member(KeyMadeIn, Null)>>)] }

BuilderDocs ==
    {[url |-> u, title |-> sh.title, product_features |-> sh.product_features] :
        u \in BuilderUrls, sh \in BuilderShapes}

\* the indexes main() builds from docs
BuiltIndexes(ds) ==
    [title_inverted |-> build_inverted_index_urls(ds, "title"),
     title_positional |-> build_positional_index_urls(ds, "title"),
     brand_index |-> build_feature_inverted_index_urls(ds, KeyBrand),
     origin_index |-> build_feature_inverted_index_urls(ds, KeyMadeIn)]

\* the orders of n documents
DocOrders(n) == {o \in [1..n -> 1..n] : \A i, j \in 1..n : o[i] = o[j] => i = j}

InitBuilders ==
    /\ pc = "build"
    /\ b_docs \in SeqUpTo(BuilderDocs, MaxDocs)
    /\ b_out = NoBuild
    /\ StoreIdle /\ ReviewsIdle /\ FilterIdle /\ PostingsIdle /\ IndexerIdle
    /\ Bm25Idle /\ SearchIdle /\ TokIdle /\ SessionIdle /\ CrawlIdle

Build ==
    /\ pc = "build"
    /\ \E ds \in {deduplicate_by_url(MainDocs(b_docs))} :
           \E order \in DocOrders(Len(ds)) :
               b_out' = [docs |-> ds,
                         order |-> order,
                         built |-> BuiltIndexes(ds),
                         reordered |-> BuiltIndexes([i \in 1..Len(ds) |-> ds[order[i]]])]
    /\ pc' = "built"
    /\ UNCHANGED <<b_docs, storeVars, reviewVars, filterVars, postingVars, indexerVars,
                   bm25Vars, searchVars, tokVars, sessVars, crawlVars>>

NextBuilders == Build

SpecBuilders == InitBuilders /\ [][NextBuilders]_vars

-----------------------------------------------------------------------------
(* The session: the data is loaded once, then queries are searched one     *)
(* after another on the objects in memory                                  *)

SessionTopK == 10

SessionPostings ==
    { {},
      FullTitlePostings,
      {[f |-> "title", tok |-> TokA, doc |-> UrlQ, tf |-> 2],
       [f |-> "origin", tok |-> TokFr, doc |-> UrlP, tf |-> 1],
       [f |-> "brand", tok |-> TokLg, doc |-> UrlPV, tf |-> 1]} }

InitSession ==
    /\ pc = "session"
    /\ \E st \in SearchStores, sy \in SearchSynonyms, ps \in SessionPostings :
           loaded = [store |-> st, idx |-> IndexFiles(ps), synonyms |-> sy,
                     stopwords |-> get_default_stopwords]
    /\ session = [initial |-> loaded, answers |-> <<>>]
    /\ StoreIdle /\ ReviewsIdle /\ FilterIdle /\ PostingsIdle /\ IndexerIdle
    /\ Bm25Idle /\ SearchIdle /\ TokIdle /\ BuildIdle /\ CrawlIdle

SessionSearch ==
    /\ pc = "session"
    /\ Len(session.answers) < MaxSearches
    /\ \E q \in SearchQueries :
           \E order \in Orders(CandidatesOf([query |-> q, synonyms |-> loaded.synonyms,
                                             idx |-> loaded.idx])) :
               /\ session' = [session EXCEPT !.answers =
                     Append(@, [query |-> q, order |-> order,
                                result |-> search(q, loaded.store, loaded.stopwords,
                                                  loaded.synonyms, loaded.idx,
                                                  SessionTopK, order)])]
               /\ loaded' = search_effect(q, loaded)
    /\ UNCHANGED <<pc, storeVars, reviewVars, filterVars, postingVars, indexerVars,
                   bm25Vars, searchVars, tokVars, buildVars, crawlVars>>

NextSession == SessionSearch

SpecSession == InitSession /\ [][NextSession]_vars

-----------------------------------------------------------------------------
(* The crawl: crawl(start_url, max_pages, ...) on a site whose pages link  *)
(* to any urls; one step is one iteration of the while loop                *)

UrlHome == <<"h", "/">>
UrlAbout == <<"h", "/", "a">>
UrlProductAB == UrlProduct \o <<"?", "a", "=", "1", "&", "b", "=", "2">>
UrlProductBA == UrlProduct \o <<"?", "b", "=", "2", "&", "a", "=", "1">>
UrlProductFragment == UrlProduct \o <<"#", "r">>
UrlExternal == <<"e", "/", "p", "r", "o", "d", "u", "c", "t">>

\* the urls the crawl can meet
CrawlUrls == {UrlHome, UrlAbout, UrlProduct, UrlProductAB, UrlProductBA,
              UrlProductFragment, UrlExternal}

\* canonicalize_url and compute_priority on the urls of the crawl, computed
\* once
canonicalize_url_of == [u \in CrawlUrls |-> crawler_canonicalize_url(u)]

compute_priority_of == [u \in CrawlUrls |-> compute_priority(u)]

\* the loop over the links of a written page; st holds frontier, seen, order
\* and the log of the links pushed and of the links skipped as seen
RECURSIVE PushLinks(_, _, _)
PushLinks(links, base_domain, st) ==
    IF links = <<>> THEN st
    ELSE LET link_url == links[1]
             canon_link == canonicalize_url_of[link_url]
         IN IF ~is_internal(link_url, base_domain)
            THEN PushLinks(Tail(links), base_domain, st)
            ELSE IF canon_link \in st.seen
            THEN PushLinks(Tail(links), base_domain,
                           [st EXCEPT !.skipped = @ \cup {link_url}])
            ELSE PushLinks(Tail(links), base_domain,
                           [frontier |-> heappush(st.frontier,
                                                  [prio |-> compute_priority_of[link_url],
                                                   ord |-> st.order, url |-> link_url]),
                            seen |-> st.seen \cup {canon_link},
                            order |-> st.order + 1,
                            pushed |-> Append(st.pushed, link_url),
                            skipped |-> st.skipped])

\* the hrefs the pages of the site hold
Hrefs == {UrlAbout, UrlProductAB, UrlProductBA, UrlProductFragment, UrlExternal}

\* what an iteration meets: robots.txt forbids the url, the download fails,
\* or the page is read and holds these hrefs
Outcomes ==
    {[allowed |-> FALSE, html_none |-> TRUE, hrefs |-> <<>>],
     [allowed |-> TRUE, html_none |-> TRUE, hrefs |-> <<>>]}
    \cup {[allowed |-> TRUE, html_none |-> FALSE, hrefs |-> l] : l \in SeqUpTo(Hrefs, MaxLinks)}

InitCrawl ==
    /\ pc = "crawl"
    /\ \E start \in {UrlHome, UrlProductFragment, UrlProductBA}, max_pages \in 1..MaxPages :
           LET start_url == normalize_url_keep_query(start)
           IN /\ crawl = [frontier |-> heappush(<<>>, [prio |-> compute_priority(start_url),
                                                      ord |-> 0, url |-> start_url]),
                          seen |-> {crawler_canonicalize_url(start_url)},
                          visited |-> {},
                          order |-> 1,
                          written |-> 0,
                          base_domain |-> get_domain(start_url),
                          max_pages |-> max_pages]
              /\ crawl_log = [NoCrawlLog EXCEPT !.pushed = <<start_url>>]
    /\ StoreIdle /\ ReviewsIdle /\ FilterIdle /\ PostingsIdle /\ IndexerIdle
    /\ Bm25Idle /\ SearchIdle /\ TokIdle /\ BuildIdle /\ SessionIdle

\* one iteration of the loop
CrawlStep ==
    /\ pc = "crawl"
    /\ crawl.frontier # <<>> /\ crawl.written < crawl.max_pages
    /\ \E met \in Outcomes :
           LET pop == heappop(crawl.frontier)
               url == pop.item.url
               canon == canonicalize_url_of[url]
               last == [popped |-> TRUE, entry |-> pop.item, rest |-> pop.heap]
               after == PushLinks(extract_links(met.hrefs), crawl.base_domain,
                                  [frontier |-> pop.heap, seen |-> crawl.seen,
                                   order |-> crawl.order, pushed |-> crawl_log.pushed,
                                   skipped |-> crawl_log.skipped])
           IN IF canon \in crawl.visited
              THEN /\ crawl' = [crawl EXCEPT !.frontier = pop.heap]
                   /\ crawl_log' = [crawl_log EXCEPT !.last = last, !.revisits = @ + 1]
              ELSE IF ~met.allowed
              THEN /\ crawl' = [crawl EXCEPT !.frontier = pop.heap,
                                             !.visited = @ \cup {canon}]
                   /\ crawl_log' = [crawl_log EXCEPT !.last = last]
              ELSE IF met.html_none
              THEN /\ crawl' = [crawl EXCEPT !.frontier = pop.heap,
                                             !.visited = @ \cup {canon}]
                   /\ crawl_log' = [crawl_log EXCEPT !.last = last,
                                                     !.fetched = Append(@, url)]
              ELSE /\ crawl' = [crawl EXCEPT !.frontier = after.frontier,
                                             !.seen = after.seen,
                                             !.visited = @ \cup {canon},
                                             !.order = after.order,
                                             !.written = @ + 1]
                   /\ crawl_log' = [crawl_log EXCEPT !.last = last,
                                                     !.fetched = Append(@, url),
                                                     !.output = Append(@, url),
                                                     !.pushed = after.pushed,
                                                     !.skipped = after.skipped]
    /\ UNCHANGED <<pc, storeVars, reviewVars, filterVars, postingVars, indexerVars,
                   bm25Vars, searchVars, tokVars, buildVars, sessVars>>

\* the loop ends: the frontier is empty or max_pages pages are written
CrawlDone ==
    /\ pc = "crawl"
    /\ ~(crawl.frontier # <<>> /\ crawl.written < crawl.max_pages)
    /\ pc' = "crawled"
    /\ UNCHANGED <<storeVars, reviewVars, filterVars, postingVars, indexerVars,
                   bm25Vars, searchVars, tokVars, buildVars, sessVars, crawlVars>>

NextCrawl == CrawlStep \/ CrawlDone

SpecCrawl == InitCrawl /\ [][NextCrawl]_vars

-----------------------------------------------------------------------------
(* Claims about the document store *)

\* the last input record with that url: the one the first pass keeps
RECURSIVE LastDocWith(_, _)
LastDocWith(ds, url) ==
    LET d == ds[Len(ds)]
    IN IF TextField(d.url) = url THEN d
       ELSE LastDocWith(SubSeq(ds, 1, Len(ds) - 1), url)

Built == pc = "built" /\ doc_store.exc = "none"

\* the stored record at a variant url whose canonical url is stored too
IsVariant(u) ==
    /\ u \in DOMAIN doc_store.store
    /\ canonicalize_url(u) # u
    /\ canonicalize_url(u) \in DOMAIN doc_store.store

InheritedValue(own, parent) == IF own # <<>> THEN own ELSE parent

\* C3: after build_doc_store, a variant record whose canonical url is in the
\* store has as origin (brand) its own extracted value if that is non-empty
\* and the canonical record's extracted value otherwise, in every input order.
C3_Inheritance ==
    Built =>
        \A u \in DOMAIN doc_store.store :
            IsVariant(u) =>
                LET own == LastDocWith(products, u)
                    par == LastDocWith(products, canonicalize_url(u))
                IN /\ doc_store.store[u].origin =
                        InheritedValue(extract_origin(own).val, extract_origin(par).val)
                   /\ doc_store.store[u].brand =
                        InheritedValue(extract_brand(own).val, extract_brand(par).val)

\* a variant read before its canonical record has inherited the brand
C3_Witness ==
    /\ Built
    /\ Len(products) = 2
    /\ products[1].url = Str(UrlPV)
    /\ products[2].url = Str(UrlP)
    /\ extract_brand(products[1]).val = <<>>
    /\ doc_store.store[UrlPV].brand = Acme

\* C9: build_doc_store never raises, whatever the shape of product_features
\* and product_reviews of the input records.
C9_NeverRaises == pc = "built" => doc_store.exc = "none"

-----------------------------------------------------------------------------
(* Claims about compute_reviews *)

\* the entries of a list that are objects carrying a numeric rating field
RECURSIVE NumericRatings(_)
NumericRatings(items) ==
    IF items = <<>> THEN <<>>
    ELSE LET r == items[1]
             rest == NumericRatings(Tail(items))
         IN IF r.t = "obj" /\ IsNumber(DictGet(r.e, KeyRating, Absent))
            THEN <<DictGet(r.e, KeyRating, Absent).n>> \o rest
            ELSE rest

FracEq(f, n, d) == f.num * d = n * f.den

\* C8: avg_rating is the mean over the entries that carry a numeric rating
\* field only, review_count is the number of entries; with no numeric rating
\* in a non-empty list avg_rating is 0.0 and review_count the entry count.
C8_MeanOverRated ==
    (pc = "reviews_done" /\ reviews_in.t = "list" /\ reviews_in.e # <<>>) =>
        LET rated == NumericRatings(reviews_in.e)
        IN /\ reviews_out.exc = "none"
           /\ reviews_out.review_count = Len(reviews_in.e)
           /\ IF rated = <<>>
              THEN FracEq(reviews_out.avg_rating, 0, 1)
              ELSE FracEq(reviews_out.avg_rating, SumSeq(rated), Len(rated))

-----------------------------------------------------------------------------
(* Claims about the postings accessor and the filters *)

\* the postings value is the compact form: a list of document ids
IsCompact(v) == v.t = "list" /\ \A i \in 1..Len(v.e) : v.e[i].t = "str"

\* C5: when the index value of a token is a list of document ids,
\* get_postings returns postings for exactly the listed documents, each with
\* term frequency 1.
C5_CompactForm ==
    pc = "postings_done" =>
        LET v == DictGet(p_index.e, p_token, Null)
        IN IsCompact(v) =>
              /\ Keys(postings_out) = {v.e[i].s : i \in 1..Len(v.e)}
              /\ \A d \in Keys(postings_out) :
                     posting_tf(DictGet(postings_out, d, Null)) = 1

\* C7: filter_all(T, I) is a subset of filter_any(T, I), for every token
\* list T, the empty one included, and every list of indexes I.
C7_AllSubsetAny ==
    pc = "filtered" => all_out \subseteq any_out

\* two tokens whose intersection is not empty and smaller than their union
C7_Witness ==
    /\ pc = "filtered"
    /\ Len(f_tokens) = 2
    /\ all_out # {}
    /\ all_out # any_out

\* the empty token list has been filtered on indexes that hold postings
C7_WitnessEmpty ==
    /\ pc = "filtered"
    /\ f_tokens = <<>>
    /\ filter_any(<<TokA, TokLg>>, f_indexes) # {}

\* C4: if the index build_inverted_index_urls writes holds a token whose
\* postings name exactly one document, filter_all([token], [index]) is the
\* set of that one document.
C4_RoundTrip ==
    (pc = "filtered" /\ title_index # EmptyIndex) =>
        LET urls == DictGet(title_index.e, f_tokens[1], Null)
        IN Len(urls.e) = 1 => all_out = {urls.e[1].s}

-----------------------------------------------------------------------------
(* Claims about bm25 and score_bm25 *)

\* the token has a posting for h/p in the index of the scoring run
HasPosting(t) == UrlP \in Keys(get_postings(ScoreIndex(bm_in), t))

\* C10: bm25 is exactly 0 when tf, df, dl, avgdl or N is 0, so score_bm25
\* adds 0 for every token without a posting for the scored document, and for
\* every token when the field length of the document is 0, and never raises.
C10_ZeroGuard ==
    /\ (pc = "bm25_done" /\ (bm_in.tf = 0 \/ bm_in.df = 0 \/ bm_in.dl = 0
                             \/ bm_in.avgdl.num = 0 \/ bm_in.N = 0))
          => bm_out = [exc |-> "none", val |-> 0]
    /\ pc = "score_done" =>
          /\ bm_out.exc = "none"
          /\ bm_in.dl = 0 => bm_out.val = 0
          /\ bm_out.val =
                IF \E i \in 1..Len(bm_in.tokens) : HasPosting(bm_in.tokens[i])
                THEN bm25(bm_in.tf, bm_in.df, bm_in.dl, bm_in.avgdl, bm_in.N).val
                ELSE 0

\* a token with a posting scored above 0, next to a token without one
C10_Witness ==
    /\ pc = "score_done"
    /\ bm_in.tokens = <<TokLg, TokFr>>
    /\ HasPosting(TokLg) /\ ~HasPosting(TokFr)
    /\ bm_out.val > 0

\* bm25 was called with a field length of 0 and nothing else 0
C10_WitnessGuard ==
    /\ pc = "bm25_done"
    /\ bm_in.dl = 0
    /\ bm_in.tf > 0 /\ bm_in.df > 0 /\ bm_in.avgdl.num > 0 /\ bm_in.N > 0

-----------------------------------------------------------------------------
(* Claims about search *)

Searched == pc = "searched" /\ result.exc = "none"

\* the documents with a posting of token t in one of the four index files
Posted(t) ==
    {d \in Range(SearchDocs) :
        \/ d \in Keys(get_postings(s_in.idx.title, t))
        \/ d \in Keys(get_postings(s_in.idx.description, t))
        \/ d \in Keys(get_postings(s_in.idx.origin, t))
        \/ d \in Keys(get_postings(s_in.idx.brand, t))}

\* documents posted for every token of T, for some token of T
AndSet(T) ==
    IF T = <<>> THEN {}
    ELSE {d \in Range(SearchDocs) : \A i \in 1..Len(T) : d \in Posted(T[i])}

OrSet(T) == {d \in Range(SearchDocs) : \E i \in 1..Len(T) : d \in Posted(T[i])}

\* the expanded tokens of the query, and those that are not stopwords
Expanded == expand_tokens_with_synonyms(tokenize(s_in.query), s_in.synonyms)
ExpandedNs == SelectSeq(Expanded, LAMBDA t : t \notin get_default_stopwords)

\* C1: the candidate set of search is the AND-intersection over the
\* stopword-filtered expanded tokens across the four indexes when that is
\* not empty, and the OR-union over the unfiltered expanded tokens otherwise;
\* so it is not empty when some expanded token has a posting in an index.
C1_Candidates ==
    pc = "searched" =>
        /\ result.locals.candidates =
              IF AndSet(ExpandedNs) # {} THEN AndSet(ExpandedNs) ELSE OrSet(Expanded)
        /\ result.documents_filtered = Cardinality(result.locals.candidates)
        /\ (\E i \in 1..Len(Expanded) : Posted(Expanded[i]) # {})
              => result.locals.candidates # {}

\* the intersection is empty and the union over the unfiltered tokens is not
C1_Witness ==
    /\ pc = "searched"
    /\ AndSet(ExpandedNs) = {}
    /\ result.locals.candidates # {}
    /\ \E d \in result.locals.candidates :
           d \notin Keys(get_postings(s_in.idx.title, TokA))
           /\ d \notin Keys(get_postings(s_in.idx.title, TokLg))

\* the intersection is not empty and smaller than the union
C1_WitnessAnd ==
    /\ pc = "searched"
    /\ result.locals.candidates # {}
    /\ result.locals.candidates = AndSet(ExpandedNs)
    /\ result.locals.candidates # OrSet(Expanded)

Canon(e) == canonicalize_url(e.doc_id)

\* C2: no two entries of the result list have the same canonical URL, and of
\* the scored candidates that share a canonical URL the one that survives
\* deduplication has a score at least that of every other one.
C2_Dedup ==
    Searched =>
        LET documents == result.documents
            scored == result.locals.scored
            dedup == result.locals.dedup
        IN /\ \A i \in 1..Len(documents), j \in 1..Len(documents) :
                  i # j => canonicalize_url(documents[i].url) # canonicalize_url(documents[j].url)
           /\ \A i \in 1..Len(dedup), j \in 1..Len(dedup) :
                  i # j => Canon(dedup[i]) # Canon(dedup[j])
           /\ \A i \in 1..Len(scored) :
                  \E j \in 1..Len(dedup) :
                      /\ Canon(dedup[j]) = Canon(scored[i])
                      /\ dedup[j] \in Range(scored)
                      /\ dedup[j].score >= scored[i].score

\* two scored candidates of different scores share a canonical URL, and the
\* result list holds the survivor
C2_Witness ==
    /\ Searched
    /\ \E i \in 1..Len(result.locals.scored), j \in 1..Len(result.locals.scored) :
           /\ Canon(result.locals.scored[i]) = Canon(result.locals.scored[j])
           /\ result.locals.scored[i].score > result.locals.scored[j].score
           /\ \E k \in 1..Len(result.documents) :
                  result.documents[k].url = result.locals.scored[i].doc_id

\* C6: search on a query that tokenizes to no token does not raise and
\* returns results_returned = 0 and no documents.
C6_EmptyQuery ==
    (pc = "searched" /\ tokenize(s_in.query) = <<>>) =>
        /\ result.exc = "none"
        /\ result.results_returned = 0
        /\ result.documents = <<>>

\* a query of punctuation was searched in index files that hold postings
C6_Witness ==
    /\ pc = "searched"
    /\ s_in.query = <<"-">>
    /\ s_in.top_k > 0
    /\ s_in.idx.title # EmptyIndex
    /\ s_in.store # <<>>

-----------------------------------------------------------------------------
(* Claims about the result list of search *)

\* C16: the documents list search returns is in non-increasing order of score.
C16_OrderedByScore ==
    Searched =>
        \A i \in 1..(Len(result.documents) - 1) :
            result.documents[i].score >= result.documents[i + 1].score

\* two documents of different scores are returned
C16_Witness ==
    /\ Searched
    /\ Len(result.documents) = 2
    /\ result.documents[1].score > result.documents[2].score

Min(a, b) == IF a < b THEN a ELSE b

\* the canonical urls of the candidates that are in the document store
CanonicalCandidates ==
    {canonicalize_url(d) : d \in result.locals.candidates \cap DOMAIN s_in.store}

\* C17: truncation comes after deduplication: results_returned is the
\* minimum of top_k and the number of distinct canonical urls among the
\* candidates present in the document store; so it is at most top_k and at
\* most documents_filtered, and every returned url is a key of the store.
C17_TruncateAfterDedup ==
    Searched =>
        /\ result.results_returned = Min(s_in.top_k, Cardinality(CanonicalCandidates))
        /\ result.results_returned = Len(result.documents)
        /\ result.results_returned <= s_in.top_k
        /\ result.results_returned <= result.documents_filtered
        /\ \A i \in 1..Len(result.documents) : result.documents[i].url \in DOMAIN s_in.store

\* three candidates, the two of highest score sharing a canonical url, and
\* top_k = 2: both canonical urls are returned
C17_Witness ==
    /\ Searched
    /\ s_in.top_k = 2
    /\ Len(result.locals.scored) = 3
    /\ Canon(result.locals.scored[1]) = Canon(result.locals.scored[2])
    /\ result.results_returned = 2

-----------------------------------------------------------------------------
(* Claims about the session *)

-----------------------------------------------------------------------------
(* Claims about the tokenizers *)

\* C11: tokenizing the space-joined output of tokenize gives the same token
\* sequence as tokenize, for the tokenizer of the search engine and for the
\* tokenizer of the indexer.
C11_Idempotent ==
    pc = "tokenized" =>
        /\ t_out.search_again = t_out.search
        /\ t_out.indexer_again = t_out.indexer

\* a text both tokenizers change: two tokens, and the joined output differs
\* from the text
C11_Witness ==
    /\ pc = "tokenized"
    /\ Len(t_out.search) = 2
    /\ Len(t_out.indexer) = 2
    /\ PyJoin(<<" ">>, t_out.search) # t_text
    /\ PyJoin(<<" ">>, t_out.indexer) # t_text

\* the two tokenizers differ on the text, and a stop word was dropped
C11_WitnessStopword ==
    /\ pc = "tokenized"
    /\ t_out.search # t_out.indexer
    /\ <<"a">> \in Range(t_out.search)
    /\ t_out.indexer # <<>>

-----------------------------------------------------------------------------
(* Claims about the index builders *)

\* the urls listed in the postings lists of a feature index
IndexedUrls(index) ==
    UNION {{index.e[i].v.e[j].s : j \in 1..Len(index.e[i].v.e)} : i \in 1..Len(index.e)}

\* the query of the url has a parameter named variant
HasVariantParameter(url) ==
    \E f \in Range(SplitOn(UrlQuery(url), "&", <<>>)) :
        \/ f = KeyVariant
        \/ /\ Len(f) > Len(KeyVariant)
           /\ SubSeq(f, 1, Len(KeyVariant) + 1) = KeyVariant \o <<"=">>

\* C12: every document id in a postings list of a feature index belongs to a
\* document that has a product identifier and no variant parameter.
C12_CanonicalOnly ==
    pc = "built" =>
        \A u \in IndexedUrls(b_out.built.brand_index)
                     \cup IndexedUrls(b_out.built.origin_index) :
            /\ extract_product_id(u) # Null
            /\ ~HasVariantParameter(u)

\* the token-to-postings mapping of an index, without the order of its keys
AsMapping(index) == {<<index.e[i].k, index.e[i].v>> : i \in 1..Len(index.e)}

\* the postings lists of an index are in strictly ascending order of url
Ascending(index) ==
    \A i \in 1..Len(index.e) :
        \A j \in 1..(Len(index.e[i].v.e) - 1) :
            StrLess(index.e[i].v.e[j].s, index.e[i].v.e[j + 1].s)

\* C13: for two orderings of the same documents (distinct urls) the inverted
\* and the feature index builders return the same token-to-postings mapping,
\* and every postings list is in strictly ascending order of document id.
C13_OrderIndependent ==
    pc = "built" =>
        /\ AsMapping(b_out.reordered.title_inverted) = AsMapping(b_out.built.title_inverted)
        /\ AsMapping(b_out.reordered.brand_index) = AsMapping(b_out.built.brand_index)
        /\ AsMapping(b_out.reordered.origin_index) = AsMapping(b_out.built.origin_index)
        /\ Ascending(b_out.built.title_inverted) /\ Ascending(b_out.reordered.title_inverted)
        /\ Ascending(b_out.built.brand_index) /\ Ascending(b_out.reordered.brand_index)
        /\ Ascending(b_out.built.origin_index) /\ Ascending(b_out.reordered.origin_index)

\* two documents read in descending order of url and built in both orders, a
\* token of the title index and a token of the brand index listing both, and
\* the keys of the title index in another order
C13_Witness ==
    /\ pc = "built"
    /\ Len(b_out.docs) = 2
    /\ StrLess(b_out.docs[2].url, b_out.docs[1].url)
    /\ b_out.order = <<2, 1>>
    /\ \E i \in 1..Len(b_out.built.title_inverted.e) :
           Len(b_out.built.title_inverted.e[i].v.e) = 2
    /\ \E i \in 1..Len(b_out.built.brand_index.e) :
           Len(b_out.built.brand_index.e[i].v.e) = 2
    /\ b_out.built.title_inverted # b_out.reordered.title_inverted

\* the title of the document with that url
TitleOf(ds, url) == FieldText(ds[CHOOSE i \in 1..Len(ds) : ds[i].url = url], "title")

\* C14: every position p recorded for a token t and a document d in the
\* positional index is an offset into tokenize(title of d) at which t stands,
\* and the positions of (t, d) are strictly increasing.
C14_PositionsInTokenization ==
    pc = "built" =>
        LET index == b_out.built.title_positional
        IN \A i \in 1..Len(index.e) :
               \A j \in 1..Len(index.e[i].v.e) :
                   LET t == index.e[i].k
                       toks == indexer_tokenize(TitleOf(b_out.docs, index.e[i].v.e[j].k))
                       ps == index.e[i].v.e[j].v.e
                   IN /\ \A k \in 1..Len(ps) :
                             /\ 0 <= ps[k].n /\ ps[k].n < Len(toks)
                             /\ toks[ps[k].n + 1] = t
                      /\ \A k \in 1..(Len(ps) - 1) : ps[k].n < ps[k + 1].n

-----------------------------------------------------------------------------
(* Claims about the crawler *)

\* the crawl-time canonical form of a url: the url without its fragment and
\* query, and its parameters whatever their order
CanonForm(url) ==
    LET clean == SubSeq(url, 1, FirstIn(url, {"#"}, 1) - 1)
        ps == parse_qsl(UrlQuery(clean))
    IN [page |-> SubSeq(clean, 1, FirstIn(clean, {"?"}, 1) - 1),
        params |-> {<<p, Cardinality({i \in 1..Len(ps) : ps[i] = p})>> : p \in Range(ps)}]

\* no two urls of the list have the same canonical form
DistinctCanon(urls) ==
    \A i \in 1..Len(urls), j \in 1..Len(urls) :
        i # j => CanonForm(urls[i]) # CanonForm(urls[j])

\* C18: no two urls fetched, and no two records written, have the same
\* crawl-time canonical form; each canonical form is pushed onto the frontier
\* at most once, visited is a subset of seen, and the "canon in visited"
\* guard never fires.
C18_NoDuplicateCanon ==
    /\ DistinctCanon(crawl_log.fetched)
    /\ DistinctCanon(crawl_log.output)
    /\ DistinctCanon(crawl_log.pushed)
    /\ crawl.visited \subseteq crawl.seen
    /\ crawl_log.revisits = 0

\* two pages are written, and a link was skipped whose url differs from
\* every url pushed but has the canonical form of one of them, which is written
C18_Witness ==
    /\ Len(crawl_log.output) = 2
    /\ \E u \in crawl_log.skipped :
           /\ u \notin Range(crawl_log.pushed)
           /\ \E j \in 1..Len(crawl_log.pushed) :
                  /\ CanonForm(crawl_log.pushed[j]) = CanonForm(u)
                  /\ crawl_log.pushed[j] \in Range(crawl_log.output)

\* the entries of the frontier and the entry popped last
Entries ==
    Range(crawl.frontier)
    \cup (IF crawl_log.last.popped THEN {crawl_log.last.entry} ELSE {})

\* C19: when a url is popped no url left in the frontier has a strictly
\* smaller priority (0 for a url containing "product", 10 for the others),
\* and of the frontier urls of equal priority the one enqueued earliest is
\* popped first.
C19_PriorityOrder ==
    /\ \A e \in Entries :
           /\ e.prio = IF \E i \in 1..Len(e.url) :
                            i + 6 <= Len(e.url)
                            /\ Lower(SubSeq(e.url, i, i + 6)) = WordProduct
                       THEN 0 ELSE 10
           /\ crawl_log.pushed[e.ord + 1] = e.url
    /\ crawl_log.last.popped =>
           \A e \in Range(crawl_log.last.rest) :
               /\ ~(e.prio < crawl_log.last.entry.prio)
               /\ e.prio = crawl_log.last.entry.prio => crawl_log.last.entry.ord < e.ord

\* a product url is popped before a url of priority 10 enqueued earlier
C19_Witness ==
    /\ crawl_log.last.popped
    /\ crawl_log.last.entry.prio = 0
    /\ \E e \in Range(crawl_log.last.rest) :
           e.ord < crawl_log.last.entry.ord /\ e.prio = 10

\* a url is popped and a url of its priority enqueued later stays in the
\* frontier
C19_WitnessFifo ==
    /\ crawl_log.last.popped
    /\ \E e \in Range(crawl_log.last.rest) :
           e.ord > crawl_log.last.entry.ord /\ e.prio = crawl_log.last.entry.prio

====
